---- MODULE Spec2Model ----
(***************************************************************************)
(* The R2 sites worker (src/workers/r2-sites/src/index.ts): an HTTP        *)
(* worker that stores static-site deployments in an object store and       *)
(* serves them back.  Strings are TLA+ strings, handled with Len, SubSeq   *)
(* and \o; the object store is a function from keys to stored objects.     *)
(***************************************************************************)
EXTENDS Integers, Sequences, FiniteSets, TLC

VARIABLES
    store,   \* the bucket: key -> stored object
    now,     \* the clock, in milliseconds (Date.now())
    env,     \* the worker's environment (R2_SITES_WORKER_TOKEN, ENVIRONMENT)
    req,     \* the last POST request the worker handled
    resp,    \* the response it returned
    pre,     \* the bucket as it was before that request
    log,     \* the object-store calls that request made, in order
    get,     \* the last GET request handled since that POST
    got,     \* its response and the object-store calls it made
    posts,   \* the number of POST requests handled so far
    readers, \* the GET requests in flight side by side, one per reader
    writer,  \* the upload in flight beside them
    app      \* the last request the application handled: its environment,
             \* the request, the response, the bucket before it and the HTTP
             \* calls it made to the worker

vars == <<store, now, env, req, resp, pre, log, get, got, posts, readers, writer, app>>

----------------------------------------------------------------------------
(* String primitives of JavaScript.                                         *)

\* s.startsWith(p)
StartsWith(s, p) == Len(s) >= Len(p) /\ SubSeq(s, 1, Len(p)) = p

\* s.endsWith(p)
EndsWith(s, p) == Len(s) >= Len(p) /\ SubSeq(s, Len(s) - Len(p) + 1, Len(s)) = p

\* s.slice(n), for 0 <= n
Slice(s, n) == IF n >= Len(s) THEN "" ELSE SubSeq(s, n + 1, Len(s))

\* s.includes(c), c one character
Includes(s, c) == \E i \in 1..Len(s) : SubSeq(s, i, i) = c

\* s.indexOf(c, from) with 1-based positions; 0 when c does not occur
RECURSIVE IndexFrom(_, _, _)
IndexFrom(s, c, from) ==
    IF from > Len(s) THEN 0
    ELSE IF SubSeq(s, from, from) = c THEN from
    ELSE IndexFrom(s, c, from + 1)

\* The characters that occur in keys, in ascending order of character code.
CodeOrder == " %-./0123456789ABCDEFGHIJKLMNOPQRSTUVWXYZ_abcdefghijklmnopqrstuvwxyz"

\* The rank of c in that order (same comparisons as c.charCodeAt(0)).
CharCode(c) == IndexFrom(CodeOrder, c, 1)

\* Lexicographic order by character code: the order in which the object
\* store lists keys.
RECURSIVE StrLess(_, _)
StrLess(a, b) ==
    IF Len(b) = 0 THEN FALSE
    ELSE IF Len(a) = 0 THEN TRUE
    ELSE IF Head(a) = Head(b) THEN StrLess(Tail(a), Tail(b))
    ELSE CharCode(Head(a)) < CharCode(Head(b))

\* String(n) for a natural number n
RECURSIVE Dec(_)
Dec(n) ==
    IF n < 10 THEN SubSeq("0123456789", n + 1, n + 1)
    ELSE Dec(n \div 10) \o SubSeq("0123456789", (n % 10) + 1, (n % 10) + 1)

\* The pathname of new URL(u): the URL parser percent-encodes a space of
\* the path and leaves the characters of the other strings used here alone.
RECURSIVE UrlPathname(_)
UrlPathname(s) ==
    IF Len(s) = 0 THEN ""
    ELSE (IF Head(s) = " " THEN "%20" ELSE Head(s)) \o UrlPathname(Tail(s))

----------------------------------------------------------------------------
(* Values.                                                                  *)

\* A string content that is not JSON.
Text(s) == [kind |-> "text", text |-> s]

\* JSON.stringify(v): the string content that JSON.parse turns back into v.
JSONstringify(v) == [kind |-> "json", value |-> v]

\* Whether JSON.parse(content) returns (it throws on any other content).
JSONparses(content) == content.kind = "json"

JSONparse(content) == content.value

\* An absent header, and a header with a value.
NoHeader == [present |-> FALSE]
Header(v) == [present |-> TRUE, value |-> v]

\* object.etag: the object store's hash of the content.
Etag(content) == [md5 |-> content]

\* new Date(t).toISOString(), for 0 <= t < 1000 milliseconds
ToISOString(t) ==
    "1970-01-01T00:00:00."
        \o (IF t < 100 THEN "0" ELSE "") \o (IF t < 10 THEN "0" ELSE "") \o Dec(t) \o "Z"

IsDigit(c) == IndexFrom("0123456789", c, 1) > 0

\* new Date(s).getTime(): the milliseconds of a timestamp of that form,
\* NaN for any other string.
DateGetTime(s) ==
    IF /\ Len(s) = 24
       /\ SubSeq(s, 1, 20) = "1970-01-01T00:00:00."
       /\ \A i \in 21..23 : IsDigit(SubSeq(s, i, i))
       /\ SubSeq(s, 24, 24) = "Z"
    THEN [nan |-> FALSE,
          v |-> 100 * (IndexFrom("0123456789", SubSeq(s, 21, 21), 1) - 1)
                + 10 * (IndexFrom("0123456789", SubSeq(s, 22, 22), 1) - 1)
                + (IndexFrom("0123456789", SubSeq(s, 23, 23), 1) - 1)]
    ELSE [nan |-> TRUE, v |-> 0]

----------------------------------------------------------------------------
(* The object store (R2Bucket): get, put, list, delete.  A call either      *)
(* returns or throws; which calls throw is the request's fault pattern.     *)

EmptyStore == [k \in {} |-> 0]

Has(s, key) == key \in DOMAIN s

\* bucket.put(key, content, {httpMetadata: {contentType}})
Put(s, key, content, contentType) ==
    [k \in DOMAIN s \cup {key} |->
        IF k = key
        THEN [body |-> content, contentType |-> contentType, etag |-> Etag(content)]
        ELSE s[k]]

\* bucket.delete(key)
Del(s, key) == [k \in DOMAIN s \ {key} |-> s[k]]

RECURSIVE SortKeys(_)
SortKeys(ks) ==
    IF ks = {} THEN <<>>
    ELSE LET m == CHOOSE k \in ks : \A o \in ks \ {k} : StrLess(k, o)
         IN <<m>> \o SortKeys(ks \ {m})

\* A listing that returns every object of the bucket, whatever the prefix.
ListWholeBucket(s, prefix) == SortKeys(DOMAIN s)

\* bucket.list({prefix}).objects, as their keys in listing order
List(s, prefix) == SortKeys({k \in DOMAIN s : StartsWith(k, prefix)})

Call(op, key, ok) == [op |-> op, key |-> key, ok |-> ok]

----------------------------------------------------------------------------
(* The worker's helpers.                                                    *)

Upper == "ABCDEFGHIJKLMNOPQRSTUVWXYZ"
Lower == "abcdefghijklmnopqrstuvwxyz"

\* s.toLowerCase()
RECURSIVE ToLowerCase(_)
ToLowerCase(s) ==
    IF Len(s) = 0 THEN ""
    ELSE LET i == IndexFrom(Upper, Head(s), 1)
         IN (IF i > 0 THEN SubSeq(Lower, i, i) ELSE Head(s)) \o ToLowerCase(Tail(s))

\* path.split('.').pop(): what follows the last '.', the whole path when
\* it has none.
RECURSIVE LastDotPart(_)
LastDotPart(path) ==
    LET i == IndexFrom(path, ".", 1)
    IN IF i = 0 THEN path ELSE LastDotPart(Slice(path, i))

MIME_TYPES ==
    [html |-> "text/html; charset=utf-8", htm |-> "text/html; charset=utf-8",
     css |-> "text/css; charset=utf-8", js |-> "application/javascript; charset=utf-8",
     mjs |-> "application/javascript; charset=utf-8",
     json |-> "application/json; charset=utf-8", png |-> "image/png",
     jpg |-> "image/jpeg", jpeg |-> "image/jpeg", gif |-> "image/gif",
     svg |-> "image/svg+xml", ico |-> "image/x-icon", woff |-> "font/woff",
     woff2 |-> "font/woff2", ttf |-> "font/ttf", txt |-> "text/plain; charset=utf-8",
     xml |-> "application/xml", webp |-> "image/webp", mp4 |-> "video/mp4",
     webm |-> "video/webm", mp3 |-> "audio/mpeg", wav |-> "audio/wav",
     pdf |-> "application/pdf", wasm |-> "application/wasm", map |-> "application/json"]

getMimeType(path) ==
    LET ext == ToLowerCase(LastDotPart(path))
    IN IF ext \in DOMAIN MIME_TYPES THEN MIME_TYPES[ext] ELSE "application/octet-stream"

NoRoute == [matched |-> FALSE, projectId |-> "", deploymentId |-> "", filePath |-> ""]

\* A route pattern whose file path may be empty.
ParseRouteEmptyFile(pathname) ==
    IF ~StartsWith(pathname, "/sites/") THEN NoRoute
    ELSE LET rest == Slice(pathname, 7)
             i    == IndexFrom(rest, "/", 1)
             j    == IndexFrom(rest, "/", i + 1)
         IN IF i <= 1 \/ j <= i + 1 THEN NoRoute
            ELSE [matched |-> TRUE,
                  projectId |-> SubSeq(rest, 1, i - 1),
                  deploymentId |-> SubSeq(rest, i + 1, j - 1),
                  filePath |-> Slice(rest, j)]

\* pathname.match(/^\/sites\/([^/]+)\/([^/]+)\/(.+)$/)
parseRoute(pathname) ==
    IF ~StartsWith(pathname, "/sites/") THEN NoRoute
    ELSE LET rest == Slice(pathname, 7)
             i    == IndexFrom(rest, "/", 1)
             j    == IndexFrom(rest, "/", i + 1)
         IN IF i <= 1 \/ j <= i + 1 \/ j >= Len(rest) THEN NoRoute
            ELSE [matched |-> TRUE,
                  projectId |-> SubSeq(rest, 1, i - 1),
                  deploymentId |-> SubSeq(rest, i + 1, j - 1),
                  filePath |-> Slice(rest, j)]

\* A key that leaves the deployment out.
BuildKeyWithoutDeployment(projectId, deploymentId, filePath) ==
    projectId \o "/" \o filePath

buildR2Key(projectId, deploymentId, filePath) ==
    projectId \o "/" \o deploymentId \o "/" \o filePath

Response(status, headers, body) == [status |-> status, headers |-> headers, body |-> body]

NoBody == [kind |-> "null"]

jsonResponse(data, status) ==
    Response(status, [ContentType |-> "application/json"], JSONstringify(data))

\* The response the runtime gives when the handler lets an exception escape.
UncaughtException == Response(500, [ContentType |-> "text/plain"], Text("Worker threw exception"))

MissingHeaderError == "Missing Authorization header."
InvalidFormatError == "Invalid Authorization header format. Expected: Bearer <token>"
InvalidTokenError == "Invalid token. Authentication failed."
MisconfiguredError == "Server misconfigured: R2_SITES_WORKER_TOKEN not set."

NoResponse == Response(0, [ContentType |-> ""], NoBody)

NoError == [rejected |-> FALSE, response |-> NoResponse]
Reject(r) == [rejected |-> TRUE, response |-> r]

\* A token check that takes any Bearer header for valid.
ValidateAnyBearer(request, e) ==
    LET expectedToken == e.R2_SITES_WORKER_TOKEN
        authHeader    == request.headers.Authorization
    IN IF expectedToken = "" THEN Reject(jsonResponse([error |-> MisconfiguredError], 500))
       ELSE IF ~authHeader.present \/ authHeader.value = ""
            THEN Reject(jsonResponse([error |-> MissingHeaderError], 401))
       ELSE IF ~StartsWith(authHeader.value, "Bearer ")
            THEN Reject(jsonResponse([error |-> InvalidFormatError], 401))
       ELSE NoError

\* A token check that looks at the header before the configuration.
ValidateHeaderFirst(request, e) ==
    LET expectedToken == e.R2_SITES_WORKER_TOKEN
        authHeader    == request.headers.Authorization
    IN IF ~authHeader.present \/ authHeader.value = ""
            THEN Reject(jsonResponse([error |-> MissingHeaderError], 401))
       ELSE IF expectedToken = ""
            THEN Reject(jsonResponse([error |-> MisconfiguredError], 500))
       ELSE IF ~StartsWith(authHeader.value, "Bearer ")
            THEN Reject(jsonResponse([error |-> InvalidFormatError], 401))
       ELSE IF Slice(authHeader.value, 7) # expectedToken
            THEN Reject(jsonResponse([error |-> InvalidTokenError], 401))
       ELSE NoError

\* validateInternalToken: the response to return, or none when the token is valid
validateInternalToken(request, e) ==
    LET expectedToken == e.R2_SITES_WORKER_TOKEN
        authHeader    == request.headers.Authorization
    IN IF expectedToken = "" THEN Reject(jsonResponse([error |-> MisconfiguredError], 500))
       ELSE IF ~authHeader.present \/ authHeader.value = ""
            THEN Reject(jsonResponse([error |-> MissingHeaderError], 401))
       ELSE IF ~StartsWith(authHeader.value, "Bearer ")
            THEN Reject(jsonResponse([error |-> InvalidFormatError], 401))
       ELSE IF Slice(authHeader.value, 7) # expectedToken
            THEN Reject(jsonResponse([error |-> InvalidTokenError], 401))
       ELSE NoError

\* generateDeploymentId, with Date.now() = t and the random suffix rnd
generateDeploymentId(t, rnd) == "deploy-" \o Dec(t) \o "-" \o rnd

\* What a handler hands back: its response, the bucket it leaves and the
\* object-store calls it made.
Outcome(r, s, calls) == [resp |-> r, store |-> s, log |-> calls]

----------------------------------------------------------------------------
(* handleServe                                                              *)

\* A conditional test that takes any If-None-Match for a match.
NotModifiedAnyValue(ifNoneMatch, object) == ifNoneMatch.present

\* ifNoneMatch === object.etag
NotModified(ifNoneMatch, object) == ifNoneMatch.present /\ ifNoneMatch.value = object.etag

RECURSIVE ServeLoop(_, _, _, _, _, _)
ServeLoop(s, request, route, pathsToTry, faults, calls) ==
    IF pathsToTry = <<>>
    THEN Outcome(Response(404,
                          [ContentType |-> "text/plain",
                           XResponseTime |-> Dec(faults.elapsed) \o "ms"],
                          Text("File not found: " \o route.filePath)),
                 s, calls)
    ELSE LET tryPath == Head(pathsToTry)
             r2Key   == buildR2Key(route.projectId, route.deploymentId, tryPath)
         IN IF r2Key \in faults.getFail
            THEN Outcome(UncaughtException, s, Append(calls, Call("get", r2Key, FALSE)))
            ELSE IF Has(s, r2Key)
            THEN LET object == s[r2Key]
                     contentType == IF object.contentType # "" THEN object.contentType
                                    ELSE getMimeType(tryPath)
                     headers == [ContentType |-> contentType,
                                 CacheControl |-> "public, max-age=31536000, immutable",
                                 ETag |-> object.etag,
                                 XResponseTime |-> Dec(faults.elapsed) \o "ms"]
                     ifNoneMatch == request.headers.IfNoneMatch
                     calls2 == Append(calls, Call("get", r2Key, TRUE))
                 IN IF NotModified(ifNoneMatch, object)
                    THEN Outcome(Response(304, headers, NoBody), s, calls2)
                    ELSE Outcome(Response(200,
                                          [h \in DOMAIN headers \cup {"AccessControlAllowOrigin"} |->
                                              IF h = "AccessControlAllowOrigin" THEN "*"
                                              ELSE headers[h]],
                                          object.body),
                                 s, calls2)
            ELSE ServeLoop(s, request, route, Tail(pathsToTry), faults,
                           Append(calls, Call("get", r2Key, TRUE)))

\* A lookup that tries index.html under the path before the path itself.
PathsToTryIndexFirst(filePath) ==
    IF ~Includes(filePath, ".")
    THEN <<IF EndsWith(filePath, "/") THEN filePath \o "index.html"
           ELSE filePath \o "/index.html",
           filePath>>
    ELSE <<filePath>>

\* A fallback that appends "/index.html" whatever the path ends in.
PathsToTrySlashAlways(filePath) ==
    IF ~Includes(filePath, ".")
    THEN <<filePath, filePath \o "/index.html">>
    ELSE <<filePath>>

\* The keys handleServe tries, in order: the exact path, then index.html
\* under it when the path has no '.'.
PathsToTry(filePath) ==
    IF ~Includes(filePath, ".")
    THEN <<filePath,
           IF EndsWith(filePath, "/") THEN filePath \o "index.html"
           ELSE filePath \o "/index.html">>
    ELSE <<filePath>>

\* A serve that stores under the requested key the index.html it fell back to.
HandleServeStoreFallback(s, request, pathname, faults) ==
    LET route == parseRoute(pathname)
    IN IF ~route.matched
       THEN Outcome(Response(400, [ContentType |-> "text/plain;charset=UTF-8"],
                Text("Invalid path. Expected /sites/{projectId}/{deploymentId}/{filePath}")),
                s, <<>>)
       ELSE LET out == ServeLoop(s, request, route, PathsToTry(route.filePath), faults, <<>>)
            IN IF out.resp.status = 200 /\ Len(out.log) = 2
               THEN Outcome(out.resp,
                            Put(s, buildR2Key(route.projectId, route.deploymentId,
                                              route.filePath),
                                out.resp.body, out.resp.headers.ContentType),
                            out.log)
               ELSE out

handleServe(s, request, pathname, faults) ==
    LET route == parseRoute(pathname)
    IN IF ~route.matched
       THEN Outcome(Response(400, [ContentType |-> "text/plain;charset=UTF-8"],
                Text("Invalid path. Expected /sites/{projectId}/{deploymentId}/{filePath}")),
                s, <<>>)
       ELSE ServeLoop(s, request, route, PathsToTry(route.filePath), faults, <<>>)

----------------------------------------------------------------------------
(* handleUpload                                                             *)

\* A loop body that drops the error of a put that throws.
PutFileSwallowError(acc, file, thrown, projectId, deploymentId) ==
    LET normalizedPath == IF StartsWith(file.path, "/") THEN Slice(file.path, 1)
                          ELSE file.path
        r2Key == buildR2Key(projectId, deploymentId, normalizedPath)
    IN IF thrown
       THEN [acc EXCEPT !.log = Append(@, Call("put", r2Key, FALSE))]
       ELSE [acc EXCEPT !.store = Put(@, r2Key, file.content, getMimeType(normalizedPath)),
                        !.uploadedFiles = Append(@, normalizedPath),
                        !.log = Append(@, Call("put", r2Key, TRUE))]

\* A loop body that tries a put that threw a second time.
PutFileRetry(acc, file, thrown, projectId, deploymentId) ==
    LET normalizedPath == IF StartsWith(file.path, "/") THEN Slice(file.path, 1)
                          ELSE file.path
        r2Key == buildR2Key(projectId, deploymentId, normalizedPath)
    IN IF thrown
       THEN [acc EXCEPT !.errors = Append(@, normalizedPath \o ": " \o "put failed"),
                        !.log = @ \o <<Call("put", r2Key, FALSE), Call("put", r2Key, FALSE)>>]
       ELSE [acc EXCEPT !.store = Put(@, r2Key, file.content, getMimeType(normalizedPath)),
                        !.uploadedFiles = Append(@, normalizedPath),
                        !.log = Append(@, Call("put", r2Key, TRUE))]

\* The body of the upload loop for one entry of files: acc holds the
\* bucket, the uploadedFiles and errors lists and the calls made so far;
\* thrown tells whether the put of this entry throws.
PutFile(acc, file, thrown, projectId, deploymentId) ==
    LET normalizedPath == IF StartsWith(file.path, "/") THEN Slice(file.path, 1)
                          ELSE file.path
        r2Key == buildR2Key(projectId, deploymentId, normalizedPath)
    IN IF thrown
       THEN [acc EXCEPT !.errors = Append(@, normalizedPath \o ": " \o "put failed"),
                        !.log = Append(@, Call("put", r2Key, FALSE))]
       ELSE [acc EXCEPT !.store = Put(@, r2Key, file.content, getMimeType(normalizedPath)),
                        !.uploadedFiles = Append(@, normalizedPath),
                        !.log = Append(@, Call("put", r2Key, TRUE))]

\* for (const [filePath, content] of Object.entries(files)), from entry i on
RECURSIVE UploadLoop(_, _, _, _, _, _)
UploadLoop(files, i, projectId, deploymentId, faults, acc) ==
    IF i > Len(files) THEN acc
    ELSE UploadLoop(files, i + 1, projectId, deploymentId, faults,
                    PutFile(acc, files[i], i \in faults.putFail, projectId, deploymentId))

\* const manifest: DeploymentManifest = {...}
Manifest(projectId, deploymentId, uploadedFiles, t) ==
    [projectId |-> projectId,
     deploymentId |-> deploymentId,
     files |-> uploadedFiles,
     createdAt |-> ToISOString(t),
     fileCount |-> Len(uploadedFiles)]

\* An upload that undoes its file puts when the manifest put throws.
HandleUploadRollback(s, request, t, rnd, faults) ==
    IF ~JSONparses(request.body)
    THEN Outcome(jsonResponse([error |-> "Unexpected token in JSON"], 500), s, <<>>)
    ELSE
    LET body == JSONparse(request.body)
    IN IF Len(body.files) = 0
       THEN Outcome(jsonResponse([error |-> "No files provided"], 400), s, <<>>)
       ELSE IF body.projectId = ""
       THEN Outcome(jsonResponse([error |-> "projectId is required"], 400), s, <<>>)
       ELSE
       LET projectId == body.projectId
           deploymentId == IF body.deploymentId # "" THEN body.deploymentId
                           ELSE generateDeploymentId(t, rnd)
           done == UploadLoop(body.files, 1, projectId, deploymentId, faults,
                              [store |-> s, uploadedFiles |-> <<>>, errors |-> <<>>,
                               log |-> <<>>])
           manifest == Manifest(projectId, deploymentId, done.uploadedFiles, t)
           manifestKey == buildR2Key(projectId, deploymentId, "_manifest.json")
           url == request.origin \o "/sites/" \o projectId \o "/" \o deploymentId
                      \o "/index.html"
       IN IF faults.manifestFail
          THEN Outcome(jsonResponse([error |-> "put failed"], 500), s,
                       Append(done.log, Call("put", manifestKey, FALSE)))
          ELSE LET s2 == Put(done.store, manifestKey, JSONstringify(manifest),
                             "application/json")
                   calls == Append(done.log, Call("put", manifestKey, TRUE))
               IN IF Len(done.errors) > 0
                  THEN Outcome(jsonResponse([success |-> FALSE,
                                             projectId |-> projectId,
                                             deploymentId |-> deploymentId,
                                             url |-> url,
                                             uploadedFiles |-> done.uploadedFiles,
                                             errors |-> done.errors], 207),
                               s2, calls)
                  ELSE Outcome(jsonResponse([success |-> TRUE,
                                             projectId |-> projectId,
                                             deploymentId |-> deploymentId,
                                             url |-> url,
                                             uploadedFiles |-> done.uploadedFiles], 200),
                               s2, calls)

handleUpload(s, request, t, rnd, faults) ==
    IF ~JSONparses(request.body)
    THEN Outcome(jsonResponse([error |-> "Unexpected token in JSON"], 500), s, <<>>)
    ELSE
    LET body == JSONparse(request.body)
    IN IF Len(body.files) = 0
       THEN Outcome(jsonResponse([error |-> "No files provided"], 400), s, <<>>)
       ELSE IF body.projectId = ""
       THEN Outcome(jsonResponse([error |-> "projectId is required"], 400), s, <<>>)
       ELSE
       LET projectId == body.projectId
           deploymentId == IF body.deploymentId # "" THEN body.deploymentId
                           ELSE generateDeploymentId(t, rnd)
           done == UploadLoop(body.files, 1, projectId, deploymentId, faults,
                              [store |-> s, uploadedFiles |-> <<>>, errors |-> <<>>,
                               log |-> <<>>])
           manifest == Manifest(projectId, deploymentId, done.uploadedFiles, t)
           manifestKey == buildR2Key(projectId, deploymentId, "_manifest.json")
           url == request.origin \o "/sites/" \o projectId \o "/" \o deploymentId
                      \o "/index.html"
       IN IF faults.manifestFail
          THEN Outcome(jsonResponse([error |-> "put failed"], 500), done.store,
                       Append(done.log, Call("put", manifestKey, FALSE)))
          ELSE LET s2 == Put(done.store, manifestKey, JSONstringify(manifest),
                             "application/json")
                   calls == Append(done.log, Call("put", manifestKey, TRUE))
               IN IF Len(done.errors) > 0
                  THEN Outcome(jsonResponse([success |-> FALSE,
                                             projectId |-> projectId,
                                             deploymentId |-> deploymentId,
                                             url |-> url,
                                             uploadedFiles |-> done.uploadedFiles,
                                             errors |-> done.errors], 207),
                               s2, calls)
                  ELSE Outcome(jsonResponse([success |-> TRUE,
                                             projectId |-> projectId,
                                             deploymentId |-> deploymentId,
                                             url |-> url,
                                             uploadedFiles |-> done.uploadedFiles], 200),
                               s2, calls)

----------------------------------------------------------------------------
(* handleDelete                                                             *)

\* for (const obj of listed.objects): delete each, counting those that did
\* not throw.
\* A loop that ends at the first delete that throws.
DeleteLoopStopOnError(keys, faults, acc) ==
    LET failing == {i \in 1..Len(keys) : keys[i] \in faults.delFail}
        last == IF failing = {} THEN Len(keys)
                ELSE CHOOSE i \in failing : \A j \in failing : i <= j
        gone == {keys[i] : i \in (1..last) \ failing}
    IN [acc EXCEPT !.store = [k \in DOMAIN @ \ gone |-> @[k]],
                   !.deletedCount = @ + Cardinality(gone),
                   !.log = @ \o [i \in 1..last |-> Call("delete", keys[i], i \notin failing)]]

RECURSIVE DeleteLoop(_, _, _)
DeleteLoop(keys, faults, acc) ==
    IF keys = <<>> THEN acc
    ELSE LET key == Head(keys)
             next == IF key \in faults.delFail
                     THEN [acc EXCEPT !.log = Append(@, Call("delete", key, FALSE))]
                     ELSE [acc EXCEPT !.store = Del(@, key),
                                      !.deletedCount = @ + 1,
                                      !.log = Append(@, Call("delete", key, TRUE))]
         IN DeleteLoop(Tail(keys), faults, next)

\* A delete that answers 404 when the deployment has no object.
HandleDeleteNotFound(s, request, faults) ==
    IF ~JSONparses(request.body)
    THEN Outcome(jsonResponse([error |-> "Unexpected token in JSON"], 500), s, <<>>)
    ELSE
    LET body == JSONparse(request.body)
        projectId == body.projectId
        deploymentId == body.deploymentId
    IN IF projectId = "" \/ deploymentId = ""
       THEN Outcome(jsonResponse([error |-> "projectId and deploymentId are required"], 400),
                    s, <<>>)
       ELSE LET prefix == projectId \o "/" \o deploymentId \o "/"
            IN IF prefix \in faults.listFail
               THEN Outcome(jsonResponse([error |-> "list failed"], 500), s,
                            <<Call("list", prefix, FALSE)>>)
               ELSE IF List(s, prefix) = <<>>
               THEN Outcome(jsonResponse([error |-> "Deployment not found"], 404), s,
                            <<Call("list", prefix, TRUE)>>)
               ELSE LET done == DeleteLoop(List(s, prefix), faults,
                                           [store |-> s, deletedCount |-> 0,
                                            log |-> <<Call("list", prefix, TRUE)>>])
                    IN Outcome(jsonResponse([success |-> TRUE,
                                             deletedCount |-> done.deletedCount,
                                             projectId |-> projectId,
                                             deploymentId |-> deploymentId], 200),
                               done.store, done.log)

handleDelete(s, request, faults) ==
    IF ~JSONparses(request.body)
    THEN Outcome(jsonResponse([error |-> "Unexpected token in JSON"], 500), s, <<>>)
    ELSE
    LET body == JSONparse(request.body)
        projectId == body.projectId
        deploymentId == body.deploymentId
    IN IF projectId = "" \/ deploymentId = ""
       THEN Outcome(jsonResponse([error |-> "projectId and deploymentId are required"], 400),
                    s, <<>>)
       ELSE LET prefix == projectId \o "/" \o deploymentId \o "/"
            IN IF prefix \in faults.listFail
               THEN Outcome(jsonResponse([error |-> "list failed"], 500), s,
                            <<Call("list", prefix, FALSE)>>)
               ELSE LET done == DeleteLoop(List(s, prefix), faults,
                                           [store |-> s, deletedCount |-> 0,
                                            log |-> <<Call("list", prefix, TRUE)>>])
                    IN Outcome(jsonResponse([success |-> TRUE,
                                             deletedCount |-> done.deletedCount,
                                             projectId |-> projectId,
                                             deploymentId |-> deploymentId], 200),
                               done.store, done.log)

----------------------------------------------------------------------------
(* handleListDeployments                                                    *)

\* listed.objects.filter((obj) => obj.key.endsWith('/_manifest.json'))
RECURSIVE FilterManifestKeys(_)
FilterManifestKeys(keys) ==
    IF keys = <<>> THEN <<>>
    ELSE (IF EndsWith(Head(keys), "/_manifest.json") THEN <<Head(keys)>> ELSE <<>>)
            \o FilterManifestKeys(Tail(keys))

\* for (const key of manifestKeys): get and parse each, skipping those
\* whose get or parse throws.
RECURSIVE ReadManifests(_, _, _, _)
ReadManifests(s, keys, faults, acc) ==
    IF keys = <<>> THEN acc
    ELSE LET key == Head(keys)
             next ==
                IF key \in faults.getFail
                THEN [acc EXCEPT !.log = Append(@, Call("get", key, FALSE))]
                ELSE IF Has(s, key) /\ JSONparses(s[key].body)
                THEN [acc EXCEPT !.manifests = Append(@, JSONparse(s[key].body)),
                                 !.log = Append(@, Call("get", key, TRUE))]
                ELSE [acc EXCEPT !.log = Append(@, Call("get", key, TRUE))]
         IN ReadManifests(s, Tail(keys), faults, next)

\* Whether a parsed JSON value is null: reading a property of it throws.
IsNull(v) == "t" \in DOMAIN v /\ v.t = "null"

NullPropertyError == "Cannot read properties of null"

\* String(m.createdAt), String(m.deploymentId) of a parsed value that is
\* not null: "undefined" when it has no such property.
CreatedAtOf(m) == IF "createdAt" \in DOMAIN m THEN m.createdAt ELSE "undefined"

DeploymentIdOf(m) == IF "deploymentId" \in DOMAIN m THEN m.deploymentId ELSE "undefined"

\* A comparator that sorts oldest first.
OldestFirst(a, b) ==
    LET ta == DateGetTime(CreatedAtOf(a))
        tb == DateGetTime(CreatedAtOf(b))
    IN IF ta.nan \/ tb.nan THEN 0 ELSE ta.v - tb.v

\* (a, b) => new Date(b.createdAt).getTime() - new Date(a.createdAt).getTime();
\* a NaN result orders like 0.
NewestFirst(a, b) ==
    LET ta == DateGetTime(CreatedAtOf(a))
        tb == DateGetTime(CreatedAtOf(b))
    IN IF ta.nan \/ tb.nan THEN 0 ELSE tb.v - ta.v

\* One step of the stable sort: x goes after every element it does not
\* sort strictly before.
RECURSIVE InsertSorted(_, _)
InsertSorted(sorted, x) ==
    IF sorted = <<>> THEN <<x>>
    ELSE LET last == sorted[Len(sorted)]
         IN IF NewestFirst(last, x) > 0
            THEN Append(InsertSorted(SubSeq(sorted, 1, Len(sorted) - 1), x), last)
            ELSE Append(sorted, x)

\* Whether manifests.sort(NewestFirst) throws: the comparator is called on
\* every element of an array of two or more, and throws on a null one.
SortThrows(ms) == Len(ms) >= 2 /\ \E i \in 1..Len(ms) : IsNull(ms[i])

\* manifests.sort(NewestFirst), when it does not throw
RECURSIVE SortManifests(_)
SortManifests(ms) ==
    IF ms = <<>> THEN <<>>
    ELSE InsertSorted(SortManifests(SubSeq(ms, 1, Len(ms) - 1)), ms[Len(ms)])

handleListDeployments(s, projectId, faults) ==
    IF projectId = ""
    THEN Outcome(jsonResponse([error |-> "projectId is required"], 400), s, <<>>)
    ELSE LET prefix == projectId \o "/"
         IN IF prefix \in faults.listFail
            THEN Outcome(jsonResponse([error |-> "list failed"], 500), s,
                         <<Call("list", prefix, FALSE)>>)
            ELSE LET read == ReadManifests(s, FilterManifestKeys(List(s, prefix)), faults,
                                           [manifests |-> <<>>,
                                            log |-> <<Call("list", prefix, TRUE)>>])
                 IN IF SortThrows(read.manifests)
                    THEN Outcome(jsonResponse([error |-> NullPropertyError], 500), s,
                                 read.log)
                    ELSE Outcome(jsonResponse(
                                     [projectId |-> projectId,
                                      deployments |-> SortManifests(read.manifests)],
                                     200),
                                 s, read.log)

----------------------------------------------------------------------------
(* handleCleanup                                                            *)

DEFAULT_RETENTION_COUNT == 5

\* JavaScript values a JSON body can give retentionCount.
Undefined == [t |-> "undefined"]
Null == [t |-> "null"]
Num(n) == [t |-> "number", v |-> n]
Str(x) == [t |-> "string", s |-> x]

RECURSIVE DigitsValue(_, _)
DigitsValue(x, acc) ==
    IF Len(x) = 0 THEN acc
    ELSE DigitsValue(Tail(x), 10 * acc + IndexFrom("0123456789", Head(x), 1) - 1)

\* ToNumber(v), for the values above
ToNumber(v) ==
    CASE v.t = "number" -> [nan |-> FALSE, v |-> v.v]
      [] v.t = "null" -> [nan |-> FALSE, v |-> 0]
      [] v.t = "string" ->
            IF \A i \in 1..Len(v.s) : IsDigit(SubSeq(v.s, i, i))
            THEN [nan |-> FALSE, v |-> DigitsValue(v.s, 0)]
            ELSE [nan |-> TRUE, v |-> 0]
      [] OTHER -> [nan |-> TRUE, v |-> 0]

\* length <= v: false when v is NaN
LengthAtMost(length, v) == LET n == ToNumber(v) IN ~n.nan /\ length <= n.v

\* array.slice(v): NaN counts as 0, a negative start counts from the end
ArraySlice(array, v) ==
    LET n == ToNumber(v)
        k == IF n.nan THEN 0 ELSE n.v
        start == IF k < 0 THEN (IF Len(array) + k < 0 THEN 0 ELSE Len(array) + k)
                 ELSE (IF k > Len(array) THEN Len(array) ELSE k)
    IN SubSeq(array, start + 1, Len(array))

\* for (const deployment of toDelete): list its prefix and delete every
\* object listed.  A null deployment or a list that throws ends the handler.
\* A cleanup that deletes under the project the manifest names.
RECURSIVE CleanupLoopManifestProject(_, _, _, _)
CleanupLoopManifestProject(toDelete, projectId, faults, acc) ==
    IF toDelete = <<>> \/ acc.threw THEN acc
    ELSE IF IsNull(Head(toDelete))
    THEN [acc EXCEPT !.threw = TRUE, !.error = NullPropertyError]
    ELSE LET delPrefix == Head(toDelete).projectId \o "/"
                              \o DeploymentIdOf(Head(toDelete)) \o "/"
         IN IF delPrefix \in faults.listFail
            THEN [acc EXCEPT !.threw = TRUE, !.error = "list failed",
                             !.log = Append(@, Call("list", delPrefix, FALSE))]
            ELSE CleanupLoopManifestProject(Tail(toDelete), projectId, faults,
                     DeleteLoop(List(acc.store, delPrefix), faults,
                                [acc EXCEPT !.log = Append(@, Call("list", delPrefix, TRUE))]))

\* A cleanup that deletes of a deployment the manifest and the files the
\* manifest lists, and no other object under its prefix.
RECURSIVE CleanupLoopListedFiles(_, _, _, _)
CleanupLoopListedFiles(toDelete, projectId, faults, acc) ==
    IF toDelete = <<>> \/ acc.threw THEN acc
    ELSE IF IsNull(Head(toDelete))
    THEN [acc EXCEPT !.threw = TRUE, !.error = NullPropertyError]
    ELSE LET delPrefix == projectId \o "/" \o DeploymentIdOf(Head(toDelete)) \o "/"
             files == Head(toDelete).files
             listedKeys == {delPrefix \o files[i] : i \in 1..Len(files)}
                               \cup {delPrefix \o "_manifest.json"}
         IN IF delPrefix \in faults.listFail
            THEN [acc EXCEPT !.threw = TRUE, !.error = "list failed",
                             !.log = Append(@, Call("list", delPrefix, FALSE))]
            ELSE CleanupLoopListedFiles(Tail(toDelete), projectId, faults,
                     DeleteLoop(SortKeys(listedKeys \cap DOMAIN acc.store), faults,
                                [acc EXCEPT !.log = Append(@, Call("list", delPrefix, TRUE))]))

RECURSIVE CleanupLoop(_, _, _, _)
CleanupLoop(toDelete, projectId, faults, acc) ==
    IF toDelete = <<>> \/ acc.threw THEN acc
    ELSE IF IsNull(Head(toDelete))
    THEN [acc EXCEPT !.threw = TRUE, !.error = NullPropertyError]
    ELSE LET delPrefix == projectId \o "/" \o DeploymentIdOf(Head(toDelete)) \o "/"
         IN IF delPrefix \in faults.listFail
            THEN [acc EXCEPT !.threw = TRUE, !.error = "list failed",
                             !.log = Append(@, Call("list", delPrefix, FALSE))]
            ELSE CleanupLoop(Tail(toDelete), projectId, faults,
                     DeleteLoop(List(acc.store, delPrefix), faults,
                                [acc EXCEPT !.log = Append(@, Call("list", delPrefix, TRUE))]))

RECURSIVE DeploymentIdsOf(_)
DeploymentIdsOf(ms) ==
    IF ms = <<>> THEN <<>> ELSE <<DeploymentIdOf(Head(ms))>> \o DeploymentIdsOf(Tail(ms))

handleCleanup(s, request, faults) ==
    IF ~JSONparses(request.body)
    THEN Outcome(jsonResponse([error |-> "Unexpected token in JSON"], 500), s, <<>>)
    ELSE
    LET body == JSONparse(request.body)
        projectId == body.projectId
        retentionCount == IF body.retentionCount = Undefined
                          THEN Num(DEFAULT_RETENTION_COUNT)
                          ELSE body.retentionCount
    IN IF projectId = ""
       THEN Outcome(jsonResponse([error |-> "projectId is required"], 400), s, <<>>)
       ELSE
       LET prefix == projectId \o "/"
       IN IF prefix \in faults.listFail
          THEN Outcome(jsonResponse([error |-> "list failed"], 500), s,
                       <<Call("list", prefix, FALSE)>>)
          ELSE
          LET read == ReadManifests(s, FilterManifestKeys(List(s, prefix)), faults,
                                    [manifests |-> <<>>,
                                     log |-> <<Call("list", prefix, TRUE)>>])
              manifests == SortManifests(read.manifests)
          IN IF SortThrows(read.manifests)
             THEN Outcome(jsonResponse([error |-> NullPropertyError], 500), s, read.log)
             ELSE IF LengthAtMost(Len(manifests), retentionCount)
             THEN Outcome(jsonResponse([projectId |-> projectId,
                                        deletedCount |-> 0,
                                        message |-> "Nothing to clean up"], 200),
                          s, read.log)
             ELSE LET toDelete == ArraySlice(manifests, retentionCount)
                      done == CleanupLoop(toDelete, projectId, faults,
                                          [store |-> s, deletedCount |-> 0,
                                           log |-> read.log, threw |-> FALSE,
                                           error |-> ""])
                  IN IF done.threw
                     THEN Outcome(jsonResponse([error |-> done.error], 500),
                                  done.store, done.log)
                     ELSE Outcome(jsonResponse(
                                      [projectId |-> projectId,
                                       deletedDeployments |-> DeploymentIdsOf(toDelete),
                                       deletedFileCount |-> done.deletedCount], 200),
                                  done.store, done.log)

----------------------------------------------------------------------------
(* fetch: the worker's dispatch                                             *)

\* A dispatch that asks for the token on the list and serve routes too.
FetchTokenOnReads(request, e, s, t, rnd, faults) ==
    LET pathname == request.pathname
    IN IF pathname = "/health"
       THEN Outcome(jsonResponse([status |-> "ok",
                                  environment |-> e.ENVIRONMENT,
                                  timestamp |-> ToISOString(t)], 200), s, <<>>)
       ELSE IF request.method = "POST" /\ pathname = "/upload"
       THEN LET authError == validateInternalToken(request, e)
            IN IF authError.rejected THEN Outcome(authError.response, s, <<>>)
               ELSE handleUpload(s, request, t, rnd, faults)
       ELSE IF request.method = "POST" /\ pathname = "/delete"
       THEN LET authError == validateInternalToken(request, e)
            IN IF authError.rejected THEN Outcome(authError.response, s, <<>>)
               ELSE handleDelete(s, request, faults)
       ELSE IF request.method = "GET" /\ StartsWith(pathname, "/deployments/")
       THEN LET authError == validateInternalToken(request, e)
            IN IF authError.rejected THEN Outcome(authError.response, s, <<>>)
               ELSE handleListDeployments(s, Slice(pathname, 13), faults)
       ELSE IF request.method = "POST" /\ pathname = "/cleanup"
       THEN LET authError == validateInternalToken(request, e)
            IN IF authError.rejected THEN Outcome(authError.response, s, <<>>)
               ELSE handleCleanup(s, request, faults)
       ELSE IF request.method = "GET" /\ StartsWith(pathname, "/sites/")
       THEN LET authError == validateInternalToken(request, e)
            IN IF authError.rejected THEN Outcome(authError.response, s, <<>>)
               ELSE handleServe(s, request, pathname, faults)
       ELSE Outcome(jsonResponse([error |-> "Not Found"], 404), s, <<>>)

fetch(request, e, s, t, rnd, faults) ==
    LET pathname == request.pathname
    IN IF pathname = "/health"
       THEN Outcome(jsonResponse([status |-> "ok",
                                  environment |-> e.ENVIRONMENT,
                                  timestamp |-> ToISOString(t)], 200), s, <<>>)
       ELSE IF request.method = "POST" /\ pathname = "/upload"
       THEN LET authError == validateInternalToken(request, e)
            IN IF authError.rejected THEN Outcome(authError.response, s, <<>>)
               ELSE handleUpload(s, request, t, rnd, faults)
       ELSE IF request.method = "POST" /\ pathname = "/delete"
       THEN LET authError == validateInternalToken(request, e)
            IN IF authError.rejected THEN Outcome(authError.response, s, <<>>)
               ELSE handleDelete(s, request, faults)
       ELSE IF request.method = "GET" /\ StartsWith(pathname, "/deployments/")
       THEN handleListDeployments(s, Slice(pathname, 13), faults)
       ELSE IF request.method = "POST" /\ pathname = "/cleanup"
       THEN LET authError == validateInternalToken(request, e)
            IN IF authError.rejected THEN Outcome(authError.response, s, <<>>)
               ELSE handleCleanup(s, request, faults)
       ELSE IF request.method = "GET" /\ StartsWith(pathname, "/sites/")
       THEN handleServe(s, request, pathname, faults)
       ELSE Outcome(jsonResponse([error |-> "Not Found"], 404), s, <<>>)

----------------------------------------------------------------------------
(* Requests, and the worker as a state machine: one request at a time.      *)

Origin == "https://sites.example"

NoFaults ==
    [putFail |-> {}, manifestFail |-> FALSE, getFail |-> {}, listFail |-> {},
     delFail |-> {}, elapsed |-> 0]

Request(method, pathname, auth, ifNoneMatch, body) ==
    [method |-> method, pathname |-> pathname, origin |-> Origin,
     headers |-> [Authorization |-> auth, IfNoneMatch |-> ifNoneMatch],
     body |-> body]

NoRequest == Request("", "", NoHeader, NoHeader, NoBody)

NoExchange == [resp |-> NoResponse, log |-> <<>>]

File(path, content) == [path |-> path, content |-> content]

UploadRequest(auth, projectId, deploymentId, files) ==
    Request("POST", "/upload", auth, NoHeader,
            JSONstringify([files |-> files, projectId |-> projectId,
                           deploymentId |-> deploymentId]))

DeleteRequest(auth, projectId, deploymentId) ==
    Request("POST", "/delete", auth, NoHeader,
            JSONstringify([projectId |-> projectId, deploymentId |-> deploymentId]))

CleanupRequest(auth, projectId, retentionCount) ==
    Request("POST", "/cleanup", auth, NoHeader,
            JSONstringify([projectId |-> projectId, retentionCount |-> retentionCount]))

\* GET of a URL whose path is written as given: the worker sees the
\* pathname the URL parser makes of it.
GetRequest(path, ifNoneMatch) ==
    Request("GET", UrlPathname(path), NoHeader, ifNoneMatch, NoBody)

SitePath(projectId, deploymentId, filePath) ==
    "/sites/" \o projectId \o "/" \o deploymentId \o "/" \o filePath

----------------------------------------------------------------------------
(* The application (Pages functions): POST /api/publish and                 *)
(* POST /api/publish/delete.  It reaches the bucket only through HTTP       *)
(* calls to the worker.  w is the worker it talks to (its env, bucket,      *)
(* clock and random suffix); io tells which HTTP calls throw and which      *)
(* object-store calls throw inside the worker.                              *)

AppRequest(route, publishToken, adminToken, body) ==
    [route |-> route,
     headers |-> [XPublishToken |-> publishToken, XPublishAdminToken |-> adminToken],
     body |-> body]

NoAppRequest == AppRequest("", NoHeader, NoHeader, NoBody)

\* The response the framework gives when an action's promise rejects.
AppUncaught == Response(500, [ContentType |-> "text/plain"], Text("Unexpected Server Error"))

\* An HTTP call the application made: the request, and the response or
\* the fact that the call threw.
HttpCall(request, response, threw) ==
    [request |-> request, response |-> response, threw |-> threw]

AppOutcome(r, s, calls) == [resp |-> r, store |-> s, calls |-> calls]

\* response.ok
Ok(response) == response.status >= 200 /\ response.status <= 299

\* The longest prefix of s made of digits.
RECURSIVE DigitPrefix(_)
DigitPrefix(s) ==
    IF Len(s) = 0 \/ ~IsDigit(Head(s)) THEN ""
    ELSE Head(s) \o DigitPrefix(Tail(s))

\* parseInt(s, 10), for a string with no leading white space
ParseInt(s) ==
    LET negative == StartsWith(s, "-")
        unsigned == IF negative \/ StartsWith(s, "+") THEN Slice(s, 1) ELSE s
        digits   == DigitPrefix(unsigned)
    IN IF digits = "" THEN [nan |-> TRUE, v |-> 0]
       ELSE [nan |-> FALSE,
             v |-> IF negative THEN 0 - DigitsValue(digits, 0) ELSE DigitsValue(digits, 0)]

\* getRetentionCount(env.PUBLISH_RETENTION_COUNT)
getRetentionCount(envValue) ==
    IF envValue = "" THEN DEFAULT_RETENTION_COUNT
    ELSE LET parsed == ParseInt(envValue)
         IN IF parsed.nan \/ parsed.v < 1 THEN DEFAULT_RETENTION_COUNT ELSE parsed.v

\* A token check that takes any supplied token for valid.
ValidateAnyPublishToken(request, appEnv) ==
    LET expectedToken == appEnv.PUBLISH_TOKEN
        providedToken == request.headers.XPublishToken
    IN IF expectedToken = ""
       THEN Reject(jsonResponse([error |-> "Server misconfigured: PUBLISH_TOKEN not set."], 500))
       ELSE IF ~providedToken.present \/ providedToken.value = ""
       THEN Reject(jsonResponse(
                [error |-> "Missing X-Publish-Token header. Authentication required for r2_worker provider."],
                401))
       ELSE NoError

validatePublishToken(request, appEnv) ==
    LET expectedToken == appEnv.PUBLISH_TOKEN
        providedToken == request.headers.XPublishToken
    IN IF expectedToken = ""
       THEN Reject(jsonResponse([error |-> "Server misconfigured: PUBLISH_TOKEN not set."], 500))
       ELSE IF ~providedToken.present \/ providedToken.value = ""
       THEN Reject(jsonResponse(
                [error |-> "Missing X-Publish-Token header. Authentication required for r2_worker provider."],
                401))
       ELSE IF providedToken.value # expectedToken
       THEN Reject(jsonResponse([error |-> "Invalid X-Publish-Token. Authentication failed."], 401))
       ELSE NoError

\* The best-effort cleanup call of handleR2Publish, inside its try/catch:
\* the call may throw and its response is not looked at.
\* The cleanup call that the worker answered with out.
CleanupCall(request, out) ==
    [store |-> out.store, call |-> HttpCall(request, out.resp, FALSE)]

CleanupStep(appEnv, projectName, s, w, io) ==
    LET retentionCount == getRetentionCount(appEnv.PUBLISH_RETENTION_COUNT)
        request == CleanupRequest(Header("Bearer " \o appEnv.R2_SITES_WORKER_TOKEN),
                                  projectName, Num(retentionCount))
    IN IF io.cleanupThrows
       THEN [store |-> s, call |-> HttpCall(request, NoResponse, TRUE)]
       ELSE CleanupCall(request, fetch(request, w.env, s, w.now, w.rnd, io.cleanupFaults))

PublishSuccess(uploadResult) ==
    jsonResponse([success |-> TRUE,
                  url |-> uploadResult.url,
                  deploymentId |-> uploadResult.deploymentId,
                  provider |-> "r2_worker"], 200)

\* The error response of handleR2Publish for an upload that did not succeed.
UploadFailed(uploadResponse, uploadResult) ==
    LET error == IF "error" \in DOMAIN uploadResult /\ uploadResult.error # ""
                 THEN uploadResult.error
                 ELSE "Upload to R2 Worker failed"
    IN IF "errors" \in DOMAIN uploadResult
       THEN jsonResponse([error |-> error, errors |-> uploadResult.errors],
                         uploadResponse.status)
       ELSE jsonResponse([error |-> error], uploadResponse.status)

\* A publish that fails when its cleanup call throws or is answered with an
\* error.
PublishAnswerCleanupFatal(uploadResult, uploadCall, cleanup) ==
    IF cleanup.call.threw \/ ~Ok(cleanup.call.response)
    THEN AppOutcome(jsonResponse([error |-> "Cleanup failed"], 500), cleanup.store,
                    <<uploadCall, cleanup.call>>)
    ELSE AppOutcome(PublishSuccess(uploadResult), cleanup.store,
                    <<uploadCall, cleanup.call>>)

\* The end of handleR2Publish, after the cleanup step: whatever the cleanup
\* call did, it is logged and the publish succeeds.
PublishAnswer(uploadResult, uploadCall, cleanup) ==
    AppOutcome(PublishSuccess(uploadResult), cleanup.store, <<uploadCall, cleanup.call>>)

\* handleR2Publish from the point where the worker has answered the upload
\* call with up.
UploadAnswer(appEnv, projectName, w, io, upload, up) ==
    LET uploadResult == JSONparse(up.resp.body)
        uploadCall == HttpCall(upload, up.resp, FALSE)
    IN IF ~Ok(up.resp) \/ ~("success" \in DOMAIN uploadResult /\ uploadResult.success)
       THEN AppOutcome(UploadFailed(up.resp, uploadResult), up.store, <<uploadCall>>)
       ELSE PublishAnswer(uploadResult, uploadCall,
                          CleanupStep(appEnv, projectName, up.store, w, io))

handleR2Publish(appEnv, files, projectName, s, w, io) ==
    LET workerUrl == appEnv.R2_SITES_WORKER_URL
        internalToken == appEnv.R2_SITES_WORKER_TOKEN
    IN IF workerUrl = ""
       THEN AppOutcome(jsonResponse(
                [error |-> "R2 worker URL not configured. Set R2_SITES_WORKER_URL."], 500),
                s, <<>>)
       ELSE IF internalToken = ""
       THEN AppOutcome(jsonResponse(
                [error |-> "Internal worker token not configured. Set R2_SITES_WORKER_TOKEN."],
                500), s, <<>>)
       ELSE
       LET upload == UploadRequest(Header("Bearer " \o internalToken), projectName, "", files)
       IN IF io.uploadThrows
          THEN AppOutcome(AppUncaught, s, <<HttpCall(upload, NoResponse, TRUE)>>)
          ELSE UploadAnswer(appEnv, projectName, w, io, upload,
                            fetch(upload, w.env, s, w.now, w.rnd, io.uploadFaults))

\* handlePagesPublish: the Pages provider talks to the Cloudflare API and
\* never to the worker; io.pagesStatus is the status of its deployment call.
handlePagesPublish(appEnv, files, projectName, s, io) ==
    IF appEnv.CLOUDFLARE_API_TOKEN = "" \/ appEnv.CLOUDFLARE_ACCOUNT_ID = ""
    THEN AppOutcome(jsonResponse(
             [error |-> "Cloudflare credentials not configured. Set CLOUDFLARE_API_TOKEN and CLOUDFLARE_ACCOUNT_ID."],
             500), s, <<>>)
    ELSE IF io.pagesStatus < 200 \/ io.pagesStatus > 299
    THEN AppOutcome(jsonResponse(
             [error |-> "Deployment failed. Check server logs for details."],
             io.pagesStatus), s, <<>>)
    ELSE AppOutcome(jsonResponse([success |-> TRUE,
                                  url |-> "https://" \o projectName \o ".pages.dev",
                                  provider |-> "pages"], 200), s, <<>>)

\* POST /api/publish.  In the body "" stands for a field that is absent.
publishAction(request, appEnv, s, w, io) ==
    IF ~JSONparses(request.body)
    THEN AppOutcome(jsonResponse([error |-> "Internal server error during publish"], 500),
                    s, <<>>)
    ELSE
    LET body == JSONparse(request.body)
        files == body.files
        projectName == IF body.projectName = "" THEN "x-builder-preview"
                       ELSE body.projectName
        provider == IF body.provider = "" THEN "pages" ELSE body.provider
    IN IF Len(files) = 0
       THEN AppOutcome(jsonResponse([error |-> "No files provided for publishing"], 400),
                       s, <<>>)
       ELSE IF provider = "r2_worker"
       THEN LET authError == validatePublishToken(request, appEnv)
            IN IF authError.rejected THEN AppOutcome(authError.response, s, <<>>)
               ELSE handleR2Publish(appEnv, files, projectName, s, w, io)
       ELSE handlePagesPublish(appEnv, files, projectName, s, io)

\* Whether every character of s is one of chars.
AllIn(s, chars) == \A i \in 1..Len(s) : Includes(chars, SubSeq(s, i, i))

\* PROJECT_ID_PATTERN.test(s): /^[a-zA-Z0-9_-]+$/
PROJECT_ID_PATTERN(s) ==
    Len(s) > 0 /\ AllIn(s, Lower \o Upper \o "0123456789" \o "_-")

\* DEPLOYMENT_ID_PATTERN.test(s): /^deploy-\d+-[a-z0-9]+$/
DEPLOYMENT_ID_PATTERN(s) ==
    /\ StartsWith(s, "deploy-")
    /\ LET rest == Slice(s, 7)
           digits == DigitPrefix(rest)
           suffix == Slice(rest, Len(digits) + 1)
       IN /\ Len(digits) > 0
          /\ StartsWith(Slice(rest, Len(digits)), "-")
          /\ Len(suffix) > 0
          /\ AllIn(suffix, Lower \o "0123456789")

\* The delete action from the point where the worker has answered the
\* delete call with out.
DeleteAnswer(delete, projectId, deploymentId, out) ==
    LET result == JSONparse(out.resp.body)
        call == HttpCall(delete, out.resp, FALSE)
    IN IF ~Ok(out.resp) \/ ~("success" \in DOMAIN result /\ result.success)
       THEN AppOutcome(jsonResponse(
                [error |-> IF "error" \in DOMAIN result /\ result.error # ""
                           THEN result.error ELSE "Delete failed"],
                out.resp.status), out.store, <<call>>)
       ELSE AppOutcome(jsonResponse([success |-> TRUE,
                                     deletedCount |-> result.deletedCount,
                                     projectId |-> projectId,
                                     deploymentId |-> deploymentId], 200),
                       out.store, <<call>>)

\* An admin delete that forwards any projectId and deploymentId.
DeleteActionUnvalidated(request, appEnv, s, w, io) ==
    LET adminToken == appEnv.PUBLISH_ADMIN_TOKEN
        providedToken == request.headers.XPublishAdminToken
        workerUrl == appEnv.R2_SITES_WORKER_URL
        internalToken == appEnv.R2_SITES_WORKER_TOKEN
    IN IF adminToken = ""
       THEN AppOutcome(jsonResponse(
                [error |-> "Admin token not configured. Set PUBLISH_ADMIN_TOKEN."], 500),
                s, <<>>)
       ELSE IF ~providedToken.present \/ providedToken.value = ""
               \/ providedToken.value # adminToken
       THEN AppOutcome(jsonResponse(
                [error |-> "Unauthorized. Invalid or missing admin token."], 401), s, <<>>)
       ELSE IF workerUrl = ""
       THEN AppOutcome(jsonResponse(
                [error |-> "R2 worker URL not configured. Set R2_SITES_WORKER_URL."], 500),
                s, <<>>)
       ELSE IF internalToken = ""
       THEN AppOutcome(jsonResponse(
                [error |-> "Internal worker token not configured. Set R2_SITES_WORKER_TOKEN."],
                500), s, <<>>)
       ELSE IF ~JSONparses(request.body)
       THEN AppOutcome(jsonResponse([error |-> "Internal server error during delete"], 500),
                       s, <<>>)
       ELSE
       LET body == JSONparse(request.body)
           projectId == body.projectId
           deploymentId == body.deploymentId
           delete == DeleteRequest(Header("Bearer " \o internalToken), projectId, deploymentId)
       IN IF io.deleteThrows
          THEN AppOutcome(jsonResponse([error |-> "Internal server error during delete"], 500),
                          s, <<HttpCall(delete, NoResponse, TRUE)>>)
          ELSE
          DeleteAnswer(delete, projectId, deploymentId,
                       fetch(delete, w.env, s, w.now, w.rnd, io.deleteFaults))

\* POST /api/publish/delete.  In the body "" stands for a field that is absent.
deleteAction(request, appEnv, s, w, io) ==
    LET adminToken == appEnv.PUBLISH_ADMIN_TOKEN
        providedToken == request.headers.XPublishAdminToken
        workerUrl == appEnv.R2_SITES_WORKER_URL
        internalToken == appEnv.R2_SITES_WORKER_TOKEN
    IN IF adminToken = ""
       THEN AppOutcome(jsonResponse(
                [error |-> "Admin token not configured. Set PUBLISH_ADMIN_TOKEN."], 500),
                s, <<>>)
       ELSE IF ~providedToken.present \/ providedToken.value = ""
               \/ providedToken.value # adminToken
       THEN AppOutcome(jsonResponse(
                [error |-> "Unauthorized. Invalid or missing admin token."], 401), s, <<>>)
       ELSE IF workerUrl = ""
       THEN AppOutcome(jsonResponse(
                [error |-> "R2 worker URL not configured. Set R2_SITES_WORKER_URL."], 500),
                s, <<>>)
       ELSE IF internalToken = ""
       THEN AppOutcome(jsonResponse(
                [error |-> "Internal worker token not configured. Set R2_SITES_WORKER_TOKEN."],
                500), s, <<>>)
       ELSE IF ~JSONparses(request.body)
       THEN AppOutcome(jsonResponse([error |-> "Internal server error during delete"], 500),
                       s, <<>>)
       ELSE
       LET body == JSONparse(request.body)
           projectId == body.projectId
           deploymentId == body.deploymentId
       IN IF projectId = ""
          THEN AppOutcome(jsonResponse([error |-> "Missing or invalid projectId"], 400),
                          s, <<>>)
          ELSE IF ~PROJECT_ID_PATTERN(projectId)
          THEN AppOutcome(jsonResponse(
                   [error |-> "Invalid projectId format. Use alphanumeric, dash, or underscore."],
                   400), s, <<>>)
          ELSE IF deploymentId = ""
          THEN AppOutcome(jsonResponse([error |-> "Missing or invalid deploymentId"], 400),
                          s, <<>>)
          ELSE IF ~DEPLOYMENT_ID_PATTERN(deploymentId)
          THEN AppOutcome(jsonResponse(
                   [error |-> "Invalid deploymentId format. Expected deploy-{timestamp}-{random}."],
                   400), s, <<>>)
          ELSE
          LET delete == DeleteRequest(Header("Bearer " \o internalToken), projectId,
                                      deploymentId)
          IN IF io.deleteThrows
             THEN AppOutcome(jsonResponse(
                      [error |-> "Internal server error during delete"], 500),
                      s, <<HttpCall(delete, NoResponse, TRUE)>>)
             ELSE
             DeleteAnswer(delete, projectId, deploymentId,
                          fetch(delete, w.env, s, w.now, w.rnd, io.deleteFaults))

\* The readers of SpecReads and the upload running beside them: a reader is
\* idle, or at the get of the i-th of its pathsToTry, or done with a response.
NumReaders == 10

IdleReader == [pc |-> "idle", i |-> 1, resp |-> NoResponse]

NoWriter ==
    [pc |-> "none", request |-> NoRequest, i |-> 1, uploadedFiles |-> <<>>,
     errors |-> <<>>, resp |-> NoResponse]

\* No HTTP call throws and no object-store call throws.
NoIO ==
    [uploadThrows |-> FALSE, uploadFaults |-> NoFaults,
     cleanupThrows |-> FALSE, cleanupFaults |-> NoFaults,
     deleteThrows |-> FALSE, deleteFaults |-> NoFaults,
     pagesStatus |-> 200]

AppEnv(publishToken, adminToken, workerUrl, workerToken, retentionCount) ==
    [PUBLISH_TOKEN |-> publishToken,
     PUBLISH_ADMIN_TOKEN |-> adminToken,
     R2_SITES_WORKER_URL |-> workerUrl,
     R2_SITES_WORKER_TOKEN |-> workerToken,
     PUBLISH_RETENTION_COUNT |-> retentionCount,
     CLOUDFLARE_API_TOKEN |-> "cf-token",
     CLOUDFLARE_ACCOUNT_ID |-> "cf-account"]

\* app.published is the history of the successful r2_worker publishes: the
\* url each one returned and the file map it was given.
NoApp ==
    [env |-> AppEnv("", "", "", "", ""), req |-> NoAppRequest, resp |-> NoResponse,
     pre |-> EmptyStore, calls |-> <<>>, published |-> <<>>]

PublishRequest(publishToken, files, projectName, provider) ==
    AppRequest("/api/publish", publishToken, NoHeader,
               JSONstringify([files |-> files, projectName |-> projectName,
                              provider |-> provider]))

AdminDeleteRequest(adminToken, projectId, deploymentId) ==
    AppRequest("/api/publish/delete", NoHeader, adminToken,
               JSONstringify([projectId |-> projectId, deploymentId |-> deploymentId]))

\* Whether response tells the client that its r2_worker publish succeeded.
PublishSucceeded(request, response) ==
    /\ request.route = "/api/publish"
    /\ response.status = 200
    /\ JSONparses(response.body)
    /\ JSONparse(response.body).provider = "r2_worker"
    /\ JSONparse(response.body).success

\* The application's answer to a request, with the worker as it is now.
AppHandle(request, appEnv, s, rnd, io) ==
    LET w == [env |-> env, now |-> now, rnd |-> rnd]
    IN IF request.route = "/api/publish"
       THEN publishAction(request, appEnv, s, w, io)
       ELSE deleteAction(request, appEnv, s, w, io)

\* The application has answered request with out.
AppCommit(request, appEnv, out) ==
    /\ store' = out.store
    /\ app' = [env |-> appEnv, req |-> request, resp |-> out.resp, pre |-> store,
               calls |-> out.calls,
               published |-> IF PublishSucceeded(request, out.resp)
                             THEN Append(app.published,
                                         [url |-> JSONparse(out.resp.body).url,
                                          files |-> JSONparse(request.body).files])
                             ELSE app.published]
    /\ get' = NoRequest
    /\ got' = NoExchange
    /\ UNCHANGED <<now, env, req, resp, pre, log, readers, writer>>

\* The application handles a POST request.
AppPost(request, appEnv, rnd, io) ==
    AppCommit(request, appEnv, AppHandle(request, appEnv, store, rnd, io))

\* The worker handles a POST request.
Post(request, rnd, faults) ==
    LET out == fetch(request, env, store, now, rnd, faults)
    IN /\ store' = out.store
       /\ req' = request
       /\ resp' = out.resp
       /\ pre' = store
       /\ log' = out.log
       /\ get' = NoRequest
       /\ got' = NoExchange
       /\ UNCHANGED <<now, env, readers, writer, app>>

\* The worker handles a GET request.
Get(request, faults) ==
    LET out == fetch(request, env, store, now, "", faults)
    IN /\ store' = out.store
       /\ get' = request
       /\ got' = [resp |-> out.resp, log |-> out.log]
       /\ UNCHANGED <<now, env, req, resp, pre, log, posts, readers, writer, app>>

InitWith(token) ==
    /\ store = EmptyStore
    /\ now = 0
    /\ env = [R2_SITES_WORKER_TOKEN |-> token, ENVIRONMENT |-> "production"]
    /\ req = NoRequest
    /\ resp = NoResponse
    /\ pre = EmptyStore
    /\ log = <<>>
    /\ get = NoRequest
    /\ got = NoExchange
    /\ posts = 0
    /\ readers = [r \in 1..NumReaders |-> IdleReader]
    /\ writer = NoWriter
    /\ app = NoApp

----------------------------------------------------------------------------
(* Spec: uploads to one project, each followed by reads of the site.        *)

MaxPosts == 1

Token == "s3cret"

ValidAuth == Header("Bearer " \o Token)

Rnd == "k3j9x2"

ContentA == Text("A")
ContentB == Text("B")

\* The file maps uploaded: the entries of each in the order of Object.entries.
FileMaps ==
    { <<File("index.html", ContentA), File("about/index.html", ContentB)>>,
      <<File("/index.html", ContentA), File("index.html", ContentB)>>,
      <<File("index.html", ContentB)>>,
      <<File("_manifest.json", ContentA)>>,
      <<File("my page.html", ContentA)>>,
      <<File("about", ContentA), File("about/index.html", ContentB)>>,
      <<File("about/", ContentA), File("about/index.html", ContentB)>>,
      <<File("docs//index.html", ContentA)>>,
      <<File("v1.0/index.html", ContentB)>> }

\* The deployment id the uploads give (the caller may name the deployment,
\* as the determinism test does).
DeploymentIds == {"d1"}

\* The deployments a reader asks for.
ServedDeployments == {"d1"}

\* The file paths a reader asks for.
ServePaths ==
    {"index.html", "about", "about/", "about/index.html", "_manifest.json",
     "my page.html", "docs/", "docs//", "v1.0", "missing.txt", ""}

\* The If-None-Match headers a reader sends with its first request.
IfNoneMatchValues == {NoHeader, Header(Etag(ContentA)), Header([raw |-> "*"])}

Upload ==
    /\ posts < MaxPosts
    /\ \E deploymentId \in DeploymentIds, files \in FileMaps :
        \E putFail \in SUBSET (1..Len(files)) :
            Post(UploadRequest(ValidAuth, "p", deploymentId, files), Rnd,
                 [NoFaults EXCEPT !.putFail = putFail])
    /\ posts' = posts + 1

\* A reader's request for a file.  Reads leave the bucket alone, so the
\* model records one read (and its revalidation) after each POST.
Serve ==
    /\ get = NoRequest
    /\ \E deploymentId \in ServedDeployments, filePath \in ServePaths,
          ifNoneMatch \in IfNoneMatchValues :
        Get(GetRequest(SitePath("p", deploymentId, filePath), ifNoneMatch), NoFaults)

\* The reader asks again for the file it was served, with If-None-Match
\* set to the ETag of the response.
Revalidate ==
    /\ get.method = "GET" /\ StartsWith(get.pathname, "/sites/")
    /\ ~get.headers.IfNoneMatch.present
    /\ got.resp.status = 200
    /\ Get([get EXCEPT !.headers.IfNoneMatch = Header(got.resp.headers.ETag)], NoFaults)

ListDeployments ==
    /\ get = NoRequest
    /\ Get(GetRequest("/deployments/p", NoHeader), NoFaults)

Init == InitWith(Token)

Next == Upload \/ Serve \/ Revalidate \/ ListDeployments

Spec == Init /\ [][Next]_vars

----------------------------------------------------------------------------
(* What the last exchanges were.                                            *)

\* The last POST was an upload that returned a result.
UploadReturned == req.pathname = "/upload" /\ resp.status \in {200, 207}

\* The last GET asked for a file, without If-None-Match.
PlainServe ==
    /\ get.method = "GET"
    /\ StartsWith(get.pathname, "/sites/")
    /\ ~get.headers.IfNoneMatch.present

\* filePath.startsWith('/') ? filePath.slice(1) : filePath
Normalized(filePath) == IF StartsWith(filePath, "/") THEN Slice(filePath, 1) ELSE filePath

SeqToSet(q) == {q[i] : i \in 1..Len(q)}

----------------------------------------------------------------------------
(* C1: determinism.                                                         *)

\* C1: after an upload that returned 200 or 207, a GET of
\* /sites/{projectId}/{deploymentId}/{path} for a path of uploadedFiles,
\* made right after it, returns 200 with the content uploaded for that path.
C1_Determinism ==
    (UploadReturned /\ PlainServe) =>
        LET result == JSONparse(resp.body)
            files  == JSONparse(req.body).files
        IN \A path \in SeqToSet(result.uploadedFiles) :
            get.pathname
                = UrlPathname(SitePath(result.projectId, result.deploymentId, path))
            => /\ got.resp.status = 200
               /\ \E i \in 1..Len(files) :
                    /\ Normalized(files[i].path) = path
                    /\ got.resp.body = files[i].content

----------------------------------------------------------------------------
(* C8: directory fallback.                                                  *)

\* The route of the last GET, and the key of a file of its deployment.
GetRoute == parseRoute(get.pathname)

KeyOf(filePath) == buildR2Key(GetRoute.projectId, GetRoute.deploymentId, filePath)

\* The directory paths P for which the last GET asked for P or for P/.
RequestedDirs ==
    {GetRoute.filePath}
        \cup (IF EndsWith(GetRoute.filePath, "/") /\ Len(GetRoute.filePath) > 1
              THEN {SubSeq(GetRoute.filePath, 1, Len(GetRoute.filePath) - 1)}
              ELSE {})

\* C8 as stated: for a requested path P with no '.', no object at the exact
\* key of P and an object at P/index.html, GET P and GET P/ both return 200
\* with the content of P/index.html.
C8_Original ==
    (PlainServe /\ GetRoute.matched) =>
        \A P \in RequestedDirs :
            (/\ ~Includes(P, ".")
             /\ ~Has(store, KeyOf(P))
             /\ Has(store, KeyOf(P \o "/index.html")))
            => /\ got.resp.status = 200
               /\ got.resp.body = store[KeyOf(P \o "/index.html")].body

\* C8 amended: the same for a path P that does not end in '/', when no
\* object is stored at the key of P nor at the key of P/.
C8_DirectoryFallback ==
    (PlainServe /\ GetRoute.matched) =>
        \A P \in RequestedDirs :
            (/\ ~Includes(P, ".")
             /\ ~EndsWith(P, "/")
             /\ ~Has(store, KeyOf(P))
             /\ ~Has(store, KeyOf(P \o "/"))
             /\ Has(store, KeyOf(P \o "/index.html")))
            => /\ got.resp.status = 200
               /\ got.resp.body = store[KeyOf(P \o "/index.html")].body

\* GET .../about/ is answered with about/index.html, no object being stored
\* at about or about/.
C8_Witness ==
    /\ PlainServe
    /\ get.pathname = SitePath("p", "d1", "about/")
    /\ ~Has(store, "p/d1/about") /\ ~Has(store, "p/d1/about/")
    /\ Has(store, "p/d1/about/index.html")
    /\ got.resp.status = 200
    /\ got.resp.body = ContentB

----------------------------------------------------------------------------
(* C9: conditional requests.                                                *)

\* The keys the last GET may be answered from that hold an object, in the
\* order of the lookup.
RECURSIVE StoredAmong(_)
StoredAmong(paths) ==
    IF paths = <<>> THEN <<>>
    ELSE (IF Has(store, KeyOf(Head(paths))) THEN <<KeyOf(Head(paths))>> ELSE <<>>)
            \o StoredAmong(Tail(paths))

IsServe == get.method = "GET" /\ StartsWith(get.pathname, "/sites/")

\* C9: a 200 response of the serve endpoint carries the stored object's
\* etag as ETag; the GET of a path with If-None-Match equal to that etag
\* returns 304 with no body, and with any other If-None-Match, or none,
\* returns 200 with the object's body.
C9_ConditionalRequest ==
    (IsServe /\ GetRoute.matched /\ StoredAmong(PathsToTry(GetRoute.filePath)) # <<>>) =>
        LET object == store[Head(StoredAmong(PathsToTry(GetRoute.filePath)))]
            ifNoneMatch == get.headers.IfNoneMatch
        IN /\ got.resp.headers.ETag = object.etag
           /\ IF ifNoneMatch.present /\ ifNoneMatch.value = object.etag
              THEN got.resp.status = 304 /\ got.resp.body = NoBody
              ELSE got.resp.status = 200 /\ got.resp.body = object.body

\* The reader was served index.html and, asking again with the ETag it got,
\* is answered 304.
C9_Witness ==
    /\ IsServe
    /\ get.pathname = SitePath("p", "d1", "index.html")
    /\ get.headers.IfNoneMatch = Header(Etag(ContentB))
    /\ Has(store, "p/d1/index.html")
    /\ store["p/d1/index.html"].body = ContentB
    /\ got.resp.status = 304

----------------------------------------------------------------------------
(* SpecUpload: uploads whose puts may throw, each followed by a read of the *)
(* project's list of deployments.                                           *)

UploadProjects == {"p", "my proj"}

\* "" stands for a request that names no deployment: the worker mints the id.
UploadDeploymentIds == {"d1", ""}

UploadFileMaps ==
    { <<File("good.txt", ContentA), File("bad.txt", ContentB)>>,
      <<File("/index.html", ContentA), File("index.html", ContentB)>>,
      <<File("_manifest.json", ContentA), File("a.txt", ContentB)>>,
      <<File("sub/_manifest.json", JSONstringify(Null)), File("index.html", ContentA)>> }

UploadWithFaults ==
    /\ posts < MaxPosts
    /\ \E projectId \in UploadProjects, deploymentId \in UploadDeploymentIds,
          files \in UploadFileMaps, manifestFail \in BOOLEAN :
        \E putFail \in SUBSET (1..Len(files)) :
            Post(UploadRequest(ValidAuth, projectId, deploymentId, files), Rnd,
                 [NoFaults EXCEPT !.putFail = putFail, !.manifestFail = manifestFail])
    /\ posts' = posts + 1

\* The caller lists the project it has just uploaded to.
ListProject ==
    /\ get = NoRequest
    /\ req.pathname = "/upload"
    /\ Get(GetRequest("/deployments/" \o JSONparse(req.body).projectId, NoHeader),
           NoFaults)

NextUpload == UploadWithFaults \/ ListProject

SpecUpload == Init /\ [][NextUpload]_vars

\* The last POST was an upload that passed the checks and made its puts:
\* log holds the put of each entry of files, in order, then the manifest's.
UploadRan == req.method = "POST" /\ req.pathname = "/upload" /\ log # <<>>

ManifestWritten == log[Len(log)].ok

\* The normalized paths of the entries whose put returned, from entry i on.
RECURSIVE SucceededPaths(_, _, _)
SucceededPaths(files, calls, i) ==
    IF i > Len(files) THEN <<>>
    ELSE (IF calls[i].ok THEN <<Normalized(files[i].path)>> ELSE <<>>)
            \o SucceededPaths(files, calls, i + 1)

FailedPuts(files, calls) == {i \in 1..Len(files) : ~calls[i].ok}

Count(q, x) == Cardinality({i \in 1..Len(q) : q[i] = x})

IsPermutation(a, b) ==
    /\ Len(a) = Len(b)
    /\ \A x \in SeqToSet(a) \cup SeqToSet(b) : Count(a, x) = Count(b, x)

----------------------------------------------------------------------------
(* C6: round trip of an upload through the list of deployments.             *)

\* C6: after an upload that returned 200 or 207, the project's list read
\* right after it returns 200 and contains a manifest for the upload's
\* deploymentId whose files is a permutation of the normalized paths whose
\* put succeeded and whose fileCount is the length of files.
C6_RoundTrip ==
    (UploadReturned /\ get.method = "GET") =>
        LET result == JSONparse(resp.body)
            files  == JSONparse(req.body).files
        IN get.pathname = UrlPathname("/deployments/" \o result.projectId)
           => /\ got.resp.status = 200
              /\ LET deployments == JSONparse(got.resp.body).deployments
                 IN \E i \in 1..Len(deployments) :
                    LET m == deployments[i]
                    IN /\ ~IsNull(m)
                       /\ DeploymentIdOf(m) = result.deploymentId
                       /\ IsPermutation(m.files, SucceededPaths(files, log, 1))
                       /\ m.fileCount = Len(m.files)

----------------------------------------------------------------------------
(* C7: reporting of partial uploads.                                        *)

\* C7: an upload whose manifest was written returns 200 with success = true
\* exactly when no put of a file threw, and otherwise 207 with
\* success = false and one entry of errors for each file whose put threw;
\* uploadedFiles lists the normalized paths whose put returned, in order.
C7_PartialUpload ==
    (UploadRan /\ ManifestWritten) =>
        LET result == JSONparse(resp.body)
            files  == JSONparse(req.body).files
            failed == FailedPuts(files, log)
        IN /\ resp.status \in {200, 207}
           /\ (resp.status = 200) = (failed = {})
           /\ result.success = (failed = {})
           /\ result.uploadedFiles = SucceededPaths(files, log, 1)
           /\ failed = {} => "errors" \notin DOMAIN result
           /\ failed # {} => Len(result.errors) = Cardinality(failed)

\* An upload of good.txt and bad.txt where the put of bad.txt threw.
C7_Witness ==
    /\ UploadRan /\ ManifestWritten
    /\ resp.status = 207
    /\ JSONparse(resp.body).uploadedFiles = <<"good.txt">>
    /\ Len(JSONparse(resp.body).errors) = 1


----------------------------------------------------------------------------
(* SpecAuth: requests to the protected endpoints with every kind of         *)
(* Authorization header and body, to a worker with or without its token.    *)

AuthHeaders ==
    {NoHeader, Header(""), ValidAuth, Header("Bearer wrong"), Header(Token)}

\* "" stands for a field the body does not have.
AuthProjects == {"", "p"}
AuthDeploymentIds == {"", "d1"}
AuthFileMaps == {<<>>, <<File("index.html", ContentA)>>}

ProtectedPaths == {"/upload", "/delete", "/cleanup"}

InitAuth == \E token \in {"", Token} : InitWith(token)

\* A first deployment, so that the requests that follow find objects.
AuthSeed ==
    /\ req = NoRequest
    /\ Post(UploadRequest(ValidAuth, "p", "d1",
                          <<File("index.html", ContentA), File("a.txt", ContentB)>>),
            Rnd, NoFaults)
    /\ UNCHANGED posts

AuthUpload ==
    /\ posts < MaxPosts
    /\ \E auth \in AuthHeaders, projectId \in AuthProjects, files \in AuthFileMaps :
        Post(UploadRequest(auth, projectId, "d1", files), Rnd, NoFaults)
    /\ posts' = posts + 1

AuthDelete ==
    /\ posts < MaxPosts
    /\ \E auth \in AuthHeaders, projectId \in AuthProjects,
          deploymentId \in AuthDeploymentIds :
        Post(DeleteRequest(auth, projectId, deploymentId), Rnd, NoFaults)
    /\ posts' = posts + 1

AuthCleanup ==
    /\ posts < MaxPosts
    /\ \E auth \in AuthHeaders, projectId \in AuthProjects,
          retentionCount \in {Undefined, Num(0)} :
        Post(CleanupRequest(auth, projectId, retentionCount), Rnd, NoFaults)
    /\ posts' = posts + 1

\* A POST whose body is not JSON.
AuthMalformed ==
    /\ posts < MaxPosts
    /\ \E auth \in AuthHeaders, pathname \in ProtectedPaths :
        Post(Request("POST", pathname, auth, NoHeader, Text("{")), Rnd, NoFaults)
    /\ posts' = posts + 1

NextAuth == AuthSeed \/ AuthUpload \/ AuthDelete \/ AuthCleanup \/ AuthMalformed

SpecAuth == InitAuth /\ [][NextAuth]_vars

\* The last request was a POST to a protected endpoint.
Protected == req.method = "POST" /\ req.pathname \in ProtectedPaths

\* What the request carries and what the worker holds.
TokenUnset == env.R2_SITES_WORKER_TOKEN = ""

HeaderMissing ==
    ~req.headers.Authorization.present \/ req.headers.Authorization.value = ""

HeaderWrong ==
    /\ ~HeaderMissing
    /\ req.headers.Authorization.value # "Bearer " \o env.R2_SITES_WORKER_TOKEN

FailsTokenCheck == TokenUnset \/ HeaderMissing \/ HeaderWrong

\* The body lacks a field the endpoint requires.
FailsValidation ==
    /\ JSONparses(req.body)
    /\ LET body == JSONparse(req.body)
       IN \/ body.projectId = ""
          \/ req.pathname = "/upload" /\ body.files = <<>>
          \/ req.pathname = "/delete" /\ body.deploymentId = ""

ErrorOf(response) == JSONparse(response.body).error

----------------------------------------------------------------------------
(* C2: rejections make no object-store call.                                *)

\* C2: a POST to /upload, /delete or /cleanup that fails the token check or
\* the required-field validation is answered with an error (400, 401 or
\* 500) without any object-store call, and the store is unchanged.
C2_RejectBeforeStorage ==
    (Protected /\ (FailsTokenCheck \/ FailsValidation)) =>
        /\ resp.status \in {400, 401, 500}
        /\ FailsTokenCheck => resp.status \in {401, 500}
        /\ ~FailsTokenCheck => resp.status = 400
        /\ "error" \in DOMAIN JSONparse(resp.body)
        /\ log = <<>>
        /\ store = pre

\* A delete of a stored deployment with a wrong token: rejected, and the
\* deployment is still there.
C2_Witness ==
    /\ Protected /\ req.pathname = "/delete"
    /\ HeaderWrong /\ ~FailsValidation
    /\ resp.status = 401
    /\ Has(store, "p/d1/index.html")

----------------------------------------------------------------------------
(* C3: the outcomes of the worker's token check.                            *)

\* C3 as stated: of a request rejected by the token check, no Authorization
\* header gives 401 naming the missing header, a present but wrong token
\* gives 401 saying the token is invalid, and an unset R2_SITES_WORKER_TOKEN
\* gives 500 naming the missing configuration.
C3_Original ==
    (Protected /\ FailsTokenCheck) =>
        /\ HeaderMissing =>
              resp.status = 401 /\ ErrorOf(resp) = MissingHeaderError
        /\ HeaderWrong =>
              resp.status = 401 /\ ErrorOf(resp) = InvalidTokenError
        /\ TokenUnset =>
              resp.status = 500 /\ ErrorOf(resp) = MisconfiguredError

\* C3 amended: an unset R2_SITES_WORKER_TOKEN gives 500 naming the missing
\* configuration whatever the header; with the token set, no (or an empty)
\* Authorization header gives 401 naming the missing header, a header that
\* does not start with "Bearer " gives 401 naming the header format, and a
\* Bearer header with another token gives 401 saying the token is invalid.
\* The four errors are pairwise distinct.
C3_AuthOutcomes ==
    /\ Cardinality({MisconfiguredError, MissingHeaderError, InvalidFormatError,
                    InvalidTokenError}) = 4
    /\ (Protected /\ FailsTokenCheck) =>
        LET expected ==
            IF TokenUnset THEN <<500, MisconfiguredError>>
            ELSE IF HeaderMissing THEN <<401, MissingHeaderError>>
            ELSE IF ~StartsWith(req.headers.Authorization.value, "Bearer ")
            THEN <<401, InvalidFormatError>>
            ELSE <<401, InvalidTokenError>>
        IN <<resp.status, ErrorOf(resp)>> = expected

\* A request with no Authorization header to a worker with no token: 500.
C3_Witness ==
    /\ Protected /\ TokenUnset /\ ~req.headers.Authorization.present
    /\ resp.status = 500
    /\ ErrorOf(resp) = MisconfiguredError

----------------------------------------------------------------------------
(* SpecRetention: a project gets one deployment per millisecond, each with  *)
(* the id the worker mints; then it is cleaned up.                          *)

MaxTime == 6

\* The retentionCount of a cleanup request: absent, numbers, a string that
\* is no number, null.
RetentionCounts ==
    {Undefined, Num(0), Num(-1), Num(1), Num(2), Num(DEFAULT_RETENTION_COUNT),
     Str("abc"), Null}

\* A publish uploads a new deployment, before any cleanup of this run.
RetentionUpload ==
    /\ posts = 0
    /\ ~Has(store, buildR2Key("p", generateDeploymentId(now, Rnd), "_manifest.json"))
    /\ Post(UploadRequest(ValidAuth, "p", "",
                          <<File("index.html", ContentA), File("a.txt", ContentB)>>),
            Rnd, NoFaults)
    /\ UNCHANGED posts

\* A millisecond passes after an upload.
Tick ==
    /\ now < MaxTime
    /\ posts = 0
    /\ Has(store, buildR2Key("p", generateDeploymentId(now, Rnd), "_manifest.json"))
    /\ now' = now + 1
    /\ UNCHANGED <<store, env, req, resp, pre, log, get, got, posts, readers, writer, app>>

Cleanup ==
    /\ posts < MaxPosts
    /\ \E retentionCount \in RetentionCounts :
        Post(CleanupRequest(ValidAuth, "p", retentionCount), Rnd, NoFaults)
    /\ posts' = posts + 1

NextRetention == RetentionUpload \/ Tick \/ Cleanup

SpecRetention == Init /\ [][NextRetention]_vars

\* The last POST was a cleanup of project p.
IsCleanup == req.method = "POST" /\ req.pathname = "/cleanup"

RetentionCountOf(request) == JSONparse(request.body).retentionCount

\* The manifests stored for project p in a bucket s, each at the key of the
\* deployment it names, and the deployments they name.
ManifestsIn(s) ==
    {JSONparse(s[k].body) :
        k \in {k \in DOMAIN s : /\ StartsWith(k, "p/")
                                /\ EndsWith(k, "/_manifest.json")
                                /\ JSONparses(s[k].body)}}

DeploymentsIn(s) == {m.deploymentId : m \in ManifestsIn(s)}

KeysOf(s, deploymentId) ==
    {k \in DOMAIN s : StartsWith(k, "p/" \o deploymentId \o "/")}

\* What a cleanup did to the deployments it found.
Deleted == {d \in DeploymentsIn(pre) : KeysOf(store, d) = {}}

Retained ==
    {d \in DeploymentsIn(pre) :
        /\ KeysOf(store, d) = KeysOf(pre, d)
        /\ \A k \in KeysOf(pre, d) : store[k] = pre[k]}

CreatedAt(s, deploymentId) ==
    DateGetTime((CHOOSE m \in ManifestsIn(s) : m.deploymentId = deploymentId).createdAt).v

Max(a, b) == IF a > b THEN a ELSE b

\* The worker's answer to the same request made again right away.
Again == fetch(req, env, store, now, Rnd, NoFaults)

----------------------------------------------------------------------------
(* C4: retention and its idempotence.                                       *)

\* C4: a cleanup with retentionCount r >= 1 of a project with n manifests of
\* distinct createdAt deletes exactly the max(0, n - r) deployments with
\* the oldest createdAt, whole, and keeps the others as they were; the same
\* cleanup made again right away deletes nothing.
C4_RetentionIdempotence ==
    (/\ IsCleanup
     /\ RetentionCountOf(req).t = "number"
     /\ RetentionCountOf(req).v >= 1
     /\ \A m1, m2 \in ManifestsIn(pre) : m1.createdAt = m2.createdAt => m1 = m2)
    => LET n == Cardinality(ManifestsIn(pre))
           r == RetentionCountOf(req).v
       IN /\ resp.status = 200
          /\ Cardinality(Deleted) = Max(0, n - r)
          /\ Deleted \cup Retained = DeploymentsIn(pre)
          /\ \A d \in Deleted, e \in Retained : CreatedAt(pre, e) > CreatedAt(pre, d)
          /\ DOMAIN store \subseteq DOMAIN pre
          /\ Again.resp.status = 200
          /\ Again.store = store
          /\ \A i \in 1..Len(Again.log) : Again.log[i].op # "delete"

\* Seven manifests and retentionCount 5: the two oldest deployments are gone.
C4_Witness ==
    /\ IsCleanup
    /\ RetentionCountOf(req) = Num(5)
    /\ Cardinality(ManifestsIn(pre)) = 7
    /\ Deleted = {generateDeploymentId(0, Rnd), generateDeploymentId(1, Rnd)}
    /\ Cardinality(Retained) = 5

----------------------------------------------------------------------------
(* C5: the default of retentionCount.                                       *)

\* C5: a cleanup whose retentionCount is absent, not a number, zero or
\* negative leaves the store that the cleanup with retentionCount 5 leaves.
C5_DefaultRetention ==
    (/\ IsCleanup
     /\ \/ RetentionCountOf(req).t # "number"
        \/ RetentionCountOf(req).v <= 0)
    => /\ resp.status = 200
       /\ store = fetch(CleanupRequest(ValidAuth, "p", Num(DEFAULT_RETENTION_COUNT)),
                        env, pre, now, Rnd, NoFaults).store

----------------------------------------------------------------------------
(* SpecReads: after an upload has returned, NumReaders readers GET the same *)
(* path side by side while another upload runs.  Each await of an           *)
(* object-store call is one step; the steps of the requests interleave.     *)

ReadFileMaps ==
    { <<File("index.html", ContentA)>>,
      <<File("index.html", ContentA), File("about/index.html", ContentB)>> }

\* The deployments the second upload may name.
WriterDeploymentIds == {"d1", "d2"}

\* The request every reader sends.
ReadRequest == GetRequest(SitePath("p", "d1", "index.html"), NoHeader)

\* The upload that returns before the reads.
FirstUpload ==
    /\ req = NoRequest
    /\ \E files \in ReadFileMaps :
        Post(UploadRequest(ValidAuth, "p", "d1", files), Rnd, NoFaults)
    /\ UNCHANGED posts

\* One get of reader r's handleServe: a hit ends the request with the
\* object, a miss moves on to the next of pathsToTry or ends it with 404.
\* The readers are numbered in the order their first get reaches the bucket.
ReaderGet(r) ==
    /\ UploadReturned
    /\ readers[r].pc # "done"
    /\ readers[r].pc = "idle" => \A q \in 1..(r - 1) : readers[q].pc # "idle"
    /\ LET route == parseRoute(ReadRequest.pathname)
           pathsToTry == PathsToTry(route.filePath)
           i == readers[r].i
           out == ServeLoop(store, ReadRequest, route, <<pathsToTry[i]>>, NoFaults, <<>>)
       IN readers' =
            [readers EXCEPT ![r] =
                IF out.resp.status = 404 /\ i < Len(pathsToTry)
                THEN [pc |-> "get", i |-> i + 1, resp |-> NoResponse]
                ELSE [pc |-> "done", i |-> i, resp |-> out.resp]]
    /\ UNCHANGED <<store, now, env, req, resp, pre, log, get, got, posts, writer, app>>

\* A second upload arrives and passes the token check and the validation.
WriterStart ==
    /\ UploadReturned
    /\ writer.pc = "none"
    /\ \E deploymentId \in WriterDeploymentIds :
        LET request == UploadRequest(ValidAuth, "p", deploymentId,
                                     <<File("index.html", ContentB)>>)
        IN /\ ~validateInternalToken(request, env).rejected
           /\ writer' = [NoWriter EXCEPT !.pc = "put", !.request = request]
    /\ UNCHANGED <<store, now, env, req, resp, pre, log, get, got, posts, readers, app>>

\* The put of the next file of the second upload.
WriterPut ==
    /\ writer.pc = "put"
    /\ LET body == JSONparse(writer.request.body)
           acc == PutFile([store |-> store, uploadedFiles |-> writer.uploadedFiles,
                           errors |-> writer.errors, log |-> <<>>],
                          body.files[writer.i], FALSE, body.projectId, body.deploymentId)
       IN /\ store' = acc.store
          /\ writer' = [writer EXCEPT
                            !.pc = IF writer.i = Len(body.files) THEN "manifest" ELSE "put",
                            !.i = writer.i + 1,
                            !.uploadedFiles = acc.uploadedFiles,
                            !.errors = acc.errors]
    /\ UNCHANGED <<now, env, req, resp, pre, log, get, got, posts, readers, app>>

\* The put of its manifest, and its response.
WriterManifest ==
    /\ writer.pc = "manifest"
    /\ LET body == JSONparse(writer.request.body)
           manifest == Manifest(body.projectId, body.deploymentId, writer.uploadedFiles, now)
           manifestKey == buildR2Key(body.projectId, body.deploymentId, "_manifest.json")
       IN /\ store' = Put(store, manifestKey, JSONstringify(manifest), "application/json")
          /\ writer' = [writer EXCEPT
                            !.pc = "done",
                            !.resp = jsonResponse(
                                [success |-> TRUE,
                                 projectId |-> body.projectId,
                                 deploymentId |-> body.deploymentId,
                                 url |-> writer.request.origin \o "/sites/"
                                            \o body.projectId \o "/" \o body.deploymentId
                                            \o "/index.html",
                                 uploadedFiles |-> writer.uploadedFiles], 200)]
    /\ UNCHANGED <<now, env, req, resp, pre, log, get, got, posts, readers, app>>

NextReads ==
    \/ FirstUpload
    \/ \E r \in 1..NumReaders : ReaderGet(r)
    \/ WriterStart
    \/ WriterPut
    \/ WriterManifest

SpecReads == Init /\ [][NextReads]_vars

\* The readers that have their response.
DoneReaders == {r \in 1..NumReaders : readers[r].pc = "done"}

\* The second upload, if any, names the deployment the readers read.
WriterOnSameDeployment ==
    /\ writer.pc # "none"
    /\ JSONparse(writer.request.body).deploymentId = parseRoute(ReadRequest.pathname).deploymentId

----------------------------------------------------------------------------
(* C10: parallel reads.                                                     *)

----------------------------------------------------------------------------
(* SpecAppAuth: requests to the application's publish and admin delete      *)
(* routes with every kind of client token, to an application with every     *)
(* kind of configuration.                                                   *)

PublishToken == "pub-secret"
AdminToken == "adm-secret"

GoodEnv == AppEnv(PublishToken, AdminToken, Origin, Token, "")

\* Configurations: complete, or with one secret or the worker's address
\* missing, or with a worker token the worker does not hold.
AuthEnvs ==
    {GoodEnv,
     [GoodEnv EXCEPT !.PUBLISH_TOKEN = ""],
     [GoodEnv EXCEPT !.PUBLISH_ADMIN_TOKEN = ""],
     [GoodEnv EXCEPT !.R2_SITES_WORKER_URL = ""],
     [GoodEnv EXCEPT !.R2_SITES_WORKER_TOKEN = ""],
     [GoodEnv EXCEPT !.R2_SITES_WORKER_TOKEN = "other"]}

\* The token header a client sends: none, the secret, another value.
ClientTokens(secret) == {NoHeader, Header(secret), Header("wrong")}

SiteFiles == <<File("index.html", ContentA), File("a.txt", ContentB)>>

\* The deployment the first publish makes.
SeedDeployment == generateDeploymentId(0, Rnd)

\* A first publish, so that the requests that follow find a deployment.
AppSeed ==
    /\ app.req = NoAppRequest
    /\ AppPost(PublishRequest(Header(PublishToken), SiteFiles, "site", "r2_worker"),
               GoodEnv, Rnd, NoIO)
    /\ UNCHANGED posts

\* "" stands for a body without provider: the Pages provider.
Publish ==
    /\ posts < MaxPosts
    /\ \E appEnv \in AuthEnvs, token \in ClientTokens(PublishToken),
          provider \in {"r2_worker", ""},
          files \in {<<>>, <<File("index.html", ContentB)>>} :
        AppPost(PublishRequest(token, files, "site", provider), appEnv, Rnd, NoIO)
    /\ posts' = posts + 1

AdminDelete ==
    /\ posts < MaxPosts
    /\ \E appEnv \in AuthEnvs, token \in ClientTokens(AdminToken),
          target \in {<<"site", SeedDeployment>>, <<"site", "d1">>, <<"", SeedDeployment>>} :
        AppPost(AdminDeleteRequest(token, target[1], target[2]), appEnv, Rnd, NoIO)
    /\ posts' = posts + 1

\* A request whose body is not JSON.
AppMalformed ==
    /\ posts < MaxPosts
    /\ \E route \in {"/api/publish", "/api/publish/delete"},
          token \in ClientTokens(PublishToken) \cup ClientTokens(AdminToken) :
        AppPost(AppRequest(route, token, token, Text("{")), GoodEnv, Rnd, NoIO)
    /\ posts' = posts + 1

NextAppAuth == AppSeed \/ Publish \/ AdminDelete \/ AppMalformed

SpecAppAuth == Init /\ [][NextAppAuth]_vars

\* The last request to the application, and its credential.
IsPublish == app.req.route = "/api/publish"

IsAdminDelete == app.req.route = "/api/publish/delete"

AppBody == JSONparse(app.req.body)

IsR2Publish ==
    IsPublish /\ JSONparses(app.req.body) /\ AppBody.provider = "r2_worker"

ClientSecret == IF IsPublish THEN app.env.PUBLISH_TOKEN ELSE app.env.PUBLISH_ADMIN_TOKEN

ClientToken ==
    IF IsPublish THEN app.req.headers.XPublishToken
    ELSE app.req.headers.XPublishAdminToken

SecretUnset == ClientSecret = ""

ClientTokenMissing == ~ClientToken.present \/ ClientToken.value = ""

ClientTokenWrong == ~ClientTokenMissing /\ ClientToken.value # ClientSecret

AppErrorOf(response) == JSONparse(response.body).error

----------------------------------------------------------------------------
(* C11: the application's token gate.                                       *)

\* C11 as stated: a publish with provider r2_worker or an admin delete
\* makes no HTTP call to the worker unless the client's token is present
\* and equal to the configured secret; a missing or mismatched token gets
\* 401 and an unset secret gets 500.
C11_Original ==
    ((IsR2Publish \/ IsAdminDelete) /\ (SecretUnset \/ ClientTokenMissing \/ ClientTokenWrong))
    => /\ app.calls = <<>>
       /\ SecretUnset => app.resp.status = 500
       /\ ~SecretUnset => app.resp.status = 401

\* C11 amended: the same, for a publish whose file map is not empty; a
\* publish with no files gets 400 whatever its token, and makes no call
\* either.
C11_OuterGate ==
    ((IsR2Publish \/ IsAdminDelete) /\ (SecretUnset \/ ClientTokenMissing \/ ClientTokenWrong))
    => /\ app.calls = <<>>
       /\ store = app.pre
       /\ IF IsR2Publish /\ AppBody.files = <<>>
          THEN app.resp.status = 400
          ELSE /\ SecretUnset => app.resp.status = 500
               /\ ~SecretUnset => app.resp.status = 401

\* A publish of files with a wrong token, to an application whose worker
\* holds a deployment: 401, and nothing was sent to the worker.
C11_Witness ==
    /\ IsR2Publish /\ AppBody.files # <<>>
    /\ ClientTokenWrong /\ ~SecretUnset
    /\ app.resp.status = 401
    /\ app.calls = <<>>
    /\ store # EmptyStore

----------------------------------------------------------------------------
(* C12: the three rejections of each token check.                           *)

WithClientToken(request, token) ==
    IF request.route = "/api/publish"
    THEN [request EXCEPT !.headers.XPublishToken = token]
    ELSE [request EXCEPT !.headers.XPublishAdminToken = token]

WithClientSecret(appEnv, route, secret) ==
    IF route = "/api/publish" THEN [appEnv EXCEPT !.PUBLISH_TOKEN = secret]
    ELSE [appEnv EXCEPT !.PUBLISH_ADMIN_TOKEN = secret]

\* The application's answers to the last request when it is sent with no
\* token, with a wrong token, and to an application with no secret.
AppAnswers ==
    LET configured == WithClientSecret(app.env, app.req.route, "configured")
        unset      == WithClientSecret(app.env, app.req.route, "")
    IN <<AppHandle(WithClientToken(app.req, NoHeader), configured, app.pre, Rnd, NoIO).resp,
         AppHandle(WithClientToken(app.req, Header("wrong")), configured, app.pre, Rnd,
                   NoIO).resp,
         AppHandle(WithClientToken(app.req, Header("wrong")), unset, app.pre, Rnd, NoIO).resp>>

\* The worker's answers to a delete sent with no Authorization header, with
\* a wrong token, and to a worker with no token.
WorkerAnswers ==
    LET configured == [env EXCEPT !.R2_SITES_WORKER_TOKEN = Token]
        unset      == [env EXCEPT !.R2_SITES_WORKER_TOKEN = ""]
    IN <<fetch(DeleteRequest(NoHeader, "site", SeedDeployment), configured, store, now, Rnd,
               NoFaults).resp,
         fetch(DeleteRequest(Header("Bearer wrong"), "site", SeedDeployment), configured,
               store, now, Rnd, NoFaults).resp,
         fetch(DeleteRequest(Header("Bearer wrong"), "site", SeedDeployment), unset, store,
               now, Rnd, NoFaults).resp>>

PairwiseDistinct(answers) ==
    \A i, j \in 1..Len(answers) : i # j => answers[i] # answers[j]

\* C12: at the application (publish with provider r2_worker, admin delete)
\* and at the worker, the responses to a request with no credential, with
\* an invalid credential and to a server with no secret configured are
\* pairwise different.
C12_Distinguishable ==
    /\ PairwiseDistinct(WorkerAnswers)
    /\ ((IsR2Publish /\ AppBody.files # <<>>) \/ (IsAdminDelete /\ JSONparses(app.req.body)))
       => PairwiseDistinct(AppAnswers)

----------------------------------------------------------------------------
(* SpecPublish: authorised r2_worker publishes, each upload and cleanup     *)
(* call returning, failing inside the worker or throwing, then a GET of a   *)
(* url that a publish returned.                                             *)

\* An application whose retention count is 1.
KeepOneEnv == [GoodEnv EXCEPT !.PUBLISH_RETENTION_COUNT = "1"]

PublishProjects == {"site", "my proj"}

\* What can go wrong in the two calls of a publish.
PublishIOs ==
    {NoIO,
     [NoIO EXCEPT !.uploadThrows = TRUE],
     [NoIO EXCEPT !.uploadFaults = [NoFaults EXCEPT !.putFail = {1}]],
     [NoIO EXCEPT !.uploadFaults = [NoFaults EXCEPT !.manifestFail = TRUE]],
     [NoIO EXCEPT !.cleanupThrows = TRUE],
     [NoIO EXCEPT !.cleanupFaults = [NoFaults EXCEPT !.listFail = {"site/", "my proj/"}]]}

\* The worker has stored nothing yet for the deployment id it would make now.
FreshDeployment(projectName) ==
    \A key \in DOMAIN store :
        ~StartsWith(key, buildR2Key(projectName, generateDeploymentId(now, Rnd), ""))

PublishSeed ==
    /\ app.req = NoAppRequest
    /\ AppPost(PublishRequest(Header(PublishToken), SiteFiles, "site", "r2_worker"),
               GoodEnv, Rnd, NoIO)
    /\ UNCHANGED posts

\* Time passes between two publishes.
Later ==
    /\ app.req # NoAppRequest
    /\ now < MaxTime
    /\ now <= posts
    /\ now' = now + 1
    /\ UNCHANGED <<store, env, req, resp, pre, log, get, got, posts, readers, writer, app>>

PublishSite ==
    /\ posts < MaxPosts
    /\ \E appEnv \in {GoodEnv, KeepOneEnv}, projectName \in PublishProjects,
          io \in PublishIOs :
        /\ FreshDeployment(projectName)
        /\ AppPost(PublishRequest(Header(PublishToken),
                                  <<File("index.html", ContentB)>>, projectName,
                                  "r2_worker"),
                   appEnv, Rnd, io)
    /\ posts' = posts + 1

\* A client opens a url that a publish returned.
GetPublished ==
    \E i \in 1..Len(app.published) :
        Get(GetRequest(Slice(app.published[i].url, Len(Origin)), NoHeader), NoFaults)

NextPublish == PublishSeed \/ Later \/ PublishSite \/ GetPublished

SpecPublish == Init /\ [][NextPublish]_vars

\* The upload call of the last publish was answered with a success.
UploadSucceeded ==
    /\ IsR2Publish
    /\ app.calls # <<>>
    /\ ~app.calls[1].threw
    /\ Ok(app.calls[1].response)
    /\ JSONparse(app.calls[1].response.body).success

UploadResult == JSONparse(app.calls[1].response.body)

\* C13: once the upload call of an r2_worker publish has succeeded, the
\* publish answers 200 with success true and the url and deploymentId of
\* the upload, whether the cleanup call throws, is answered with an error
\* or succeeds.
C13_CleanupNeverFails ==
    UploadSucceeded =>
        /\ Len(app.calls) = 2
        /\ app.calls[2].request.pathname = "/cleanup"
        /\ app.resp.status = 200
        /\ JSONparse(app.resp.body).success = TRUE
        /\ JSONparse(app.resp.body).url = UploadResult.url
        /\ JSONparse(app.resp.body).deploymentId = UploadResult.deploymentId

\* The upload succeeded and the worker answered the cleanup call with 500.
C13_Witness ==
    /\ UploadSucceeded
    /\ Len(app.calls) = 2
    /\ ~app.calls[2].threw
    /\ app.calls[2].response.status = 500
    /\ app.resp.status = 200

\* The publishes whose url the last GET opened.
Opened ==
    {i \in 1..Len(app.published) :
        get.pathname = UrlPathname(Slice(app.published[i].url, Len(Origin)))}

\* The content given for index.html in a file map that has one.
IndexHtml(files) ==
    LET i == CHOOSE i \in 1..Len(files) : files[i].path = "index.html"
    IN files[i].content

\* C17: a single GET of the url that a successful r2_worker publish
\* returned, for a file map with index.html, answers 200 with the content
\* of index.html, whatever other publishes to the project and their
\* cleanups did in between.
C17_PublishDeterminism ==
    \A i \in Opened :
        /\ got.resp.status = 200
        /\ got.resp.body = IndexHtml(app.published[i].files)

----------------------------------------------------------------------------
(* SpecDelete: deployments are uploaded, one is deleted, with or without a  *)
(* store call that throws, and a client then reads under the deleted        *)
(* deployment and lists its project.                                        *)

\* The deployments uploaded before the delete.  The second holds a file
\* named sub/_manifest.json whose content is a manifest of the first.
DeleteSeeds ==
    {[projectId |-> "p", deploymentId |-> "d1",
      files |-> <<File("index.html", ContentA), File("a.txt", ContentB)>>],
     [projectId |-> "p", deploymentId |-> "d2",
      files |-> <<File("index.html", ContentB),
                  File("sub/_manifest.json",
                       JSONstringify(Manifest("p", "d1", <<"index.html">>, 0)))>>],
     [projectId |-> "my proj", deploymentId |-> "d1",
      files |-> <<File("index.html", ContentA)>>],
     [projectId |-> "my%20proj", deploymentId |-> "d1",
      files |-> <<File("index.html", ContentB)>>]}

DeleteTargets == {<<"p", "d1">>, <<"p", "d3">>, <<"my proj", "d1">>, <<"p", "">>}

\* No store call throws, or the delete of one object, or the list.
DeleteFaults ==
    {NoFaults,
     [NoFaults EXCEPT !.delFail = {"p/d1/a.txt"}],
     [NoFaults EXCEPT !.listFail = {"p/d1/", "p/d3/"}]}

DeletedFilePaths == {"index.html", "a.txt", "sub/"}

DeleteSeed ==
    /\ posts = 0
    /\ \E seed \in DeleteSeeds :
        /\ List(store, buildR2Key(seed.projectId, seed.deploymentId, "")) = <<>>
        /\ Post(UploadRequest(ValidAuth, seed.projectId, seed.deploymentId, seed.files),
                Rnd, NoFaults)
    /\ UNCHANGED posts

DeleteDeployment ==
    /\ posts < MaxPosts
    /\ \E target \in DeleteTargets, faults \in DeleteFaults :
        Post(DeleteRequest(ValidAuth, target[1], target[2]), Rnd, faults)
    /\ posts' = posts + 1

\* After a delete, a GET of a file of the deployment it named.
ServeDeleted ==
    /\ req.pathname = "/delete"
    /\ \E filePath \in DeletedFilePaths :
        Get(GetRequest(SitePath(JSONparse(req.body).projectId,
                                JSONparse(req.body).deploymentId, filePath), NoHeader),
            NoFaults)

\* After a delete, the list of the project it named.
ListDeleted ==
    /\ req.pathname = "/delete"
    /\ Get(GetRequest("/deployments/" \o JSONparse(req.body).projectId, NoHeader), NoFaults)

NextDelete == DeleteSeed \/ DeleteDeployment \/ ServeDeleted \/ ListDeleted

SpecDelete == Init /\ [][NextDelete]_vars

\* The last POST was a delete that passed validation and whose list call
\* returned.
DeleteRan ==
    /\ req.method = "POST" /\ req.pathname = "/delete"
    /\ log # <<>> /\ log[1].ok

DeleteBody == JSONparse(req.body)

DeletePrefix == buildR2Key(DeleteBody.projectId, DeleteBody.deploymentId, "")

\* No delete of an object failed.
NoDeleteFailed == \A i \in 1..Len(log) : log[i].ok

\* The last GET asked for a file under the deleted deployment.
ServedDeleted ==
    \E filePath \in DeletedFilePaths :
        get.pathname = UrlPathname(SitePath(DeleteBody.projectId, DeleteBody.deploymentId,
                                            filePath))

ListedDeleted == get.pathname = UrlPathname("/deployments/" \o DeleteBody.projectId)

NothingStoredUnder(s, prefix) == \A key \in DOMAIN s : ~StartsWith(key, prefix)

\* C14: after a delete that returned without a failed object delete, no
\* object of the deployment remains, the manifest included, a later GET of a
\* file under the deployment answers 404, and the list of the project does
\* not show the deployment.
C14_DeleteWhole ==
    (DeleteRan /\ NoDeleteFailed) =>
        /\ resp.status = 200
        /\ NothingStoredUnder(store, DeletePrefix)
        /\ ServedDeleted => got.resp.status = 404
        /\ ListedDeleted =>
              /\ got.resp.status = 200
              /\ \A i \in 1..Len(JSONparse(got.resp.body).deployments) :
                    JSONparse(got.resp.body).deployments[i].deploymentId
                        # DeleteBody.deploymentId

\* The response to the last delete sent once more, and the store after it.
DeleteAgain == fetch(req, env, store, now, Rnd, NoFaults)

DeleteSuccess(response, deletedCount) ==
    /\ response.status = 200
    /\ JSONparse(response.body).success = TRUE
    /\ JSONparse(response.body).deletedCount = deletedCount

----------------------------------------------------------------------------
(* SpecRead: GET requests to the read endpoints with every kind of          *)
(* Authorization header, to a worker with or without a configured token.    *)

ReadPaths ==
    {"/health",
     "/sites/p/d1/index.html", "/sites/p/d1/a.txt", "/sites/p/d1/missing.txt",
     "/sites/p/d1/", "/sites/p/d2/index.html",
     "/deployments/p", "/deployments/q", "/deployments/"}

\* The worker's tokens: none, the one the application holds, another.
WorkerTokens == {"", Token, "other"}

ReadWith ==
    \E auth \in AuthHeaders, path \in ReadPaths,
       ifNoneMatch \in {NoHeader, Header(Etag(ContentA))} :
        Get(Request("GET", UrlPathname(path), auth, ifNoneMatch, NoBody), NoFaults)

NextRead == AuthSeed \/ ReadWith

SpecRead == InitAuth /\ [][NextRead]_vars

\* The last GET was sent to one of the read endpoints.
IsRead ==
    /\ get.method = "GET"
    /\ \/ get.pathname = "/health"
       \/ StartsWith(get.pathname, "/sites/")
       \/ StartsWith(get.pathname, "/deployments/")

\* C16: the response to a GET of /health, /sites/... or /deployments/... is
\* the one the worker gives to the same request with any other
\* Authorization header or none, with or without R2_SITES_WORKER_TOKEN
\* configured, and it changes nothing in the store.
C16_ReadsNeedNoToken ==
    IsRead =>
        \A auth \in AuthHeaders, token \in WorkerTokens :
            LET other == fetch([get EXCEPT !.headers.Authorization = auth],
                               [env EXCEPT !.R2_SITES_WORKER_TOKEN = token],
                               store, now, "", NoFaults)
            IN other.resp = got.resp /\ other.store = store

\* A file is served to a GET that carries a wrong token.
C16_Witness ==
    /\ IsRead
    /\ StartsWith(get.pathname, "/sites/")
    /\ get.headers.Authorization = Header("Bearer wrong")
    /\ env.R2_SITES_WORKER_TOKEN = Token
    /\ got.resp.status = 200
    /\ got.resp.body = ContentA

----------------------------------------------------------------------------
(* SpecPairs: two uploads that name different (projectId, deploymentId)     *)
(* pairs, the puts of one taken one at a time and the other arriving at any *)
(* point between them.                                                      *)

UploadPairs == {<<"p", "d1">>, <<"p", "d2">>, <<"a/b", "c">>, <<"a", "b/c">>}

PairFileMaps ==
    {<<File("index.html", ContentA)>>,
     <<File("index.html", ContentA), File("a.txt", ContentB)>>}

PairOf(request) == <<JSONparse(request.body).projectId, JSONparse(request.body).deploymentId>>

\* An upload arrives and passes the token check and the validation.
PairStart ==
    /\ writer.pc = "none"
    /\ \E pair \in UploadPairs, files \in PairFileMaps :
        LET request == UploadRequest(ValidAuth, pair[1], pair[2], files)
        IN /\ ~validateInternalToken(request, env).rejected
           /\ writer' = [NoWriter EXCEPT !.pc = "put", !.request = request]
    /\ UNCHANGED <<store, now, env, req, resp, pre, log, get, got, posts, readers, app>>

\* An upload to another pair runs between two steps of the first.
PairUpload ==
    /\ posts < MaxPosts
    /\ writer.pc # "none"
    /\ \E pair \in UploadPairs \ {PairOf(writer.request)} :
        Post(UploadRequest(ValidAuth, pair[1], pair[2], <<File("index.html", ContentB)>>),
             Rnd, NoFaults)
    /\ posts' = posts + 1

NextPairs == PairStart \/ WriterPut \/ WriterManifest \/ PairUpload

SpecPairs == Init /\ [][NextPairs]_vars

\* Both uploads have returned.
BothUploaded == writer.pc = "done" /\ UploadReturned

\* The keys the two uploads have put.
WriterKeys ==
    {buildR2Key(PairOf(writer.request)[1], PairOf(writer.request)[2], path) :
        path \in SeqToSet(writer.uploadedFiles) \cup {"_manifest.json"}}

PostKeys == {log[i].key : i \in {j \in 1..Len(log) : log[j].op = "put" /\ log[j].ok}}

\* The store an upload makes when it runs alone on an empty bucket.
Alone(request) == fetch(request, env, EmptyStore, now, Rnd, NoFaults).store

\* The store holds for the request's deployment exactly what Alone holds.
StoredAsAlone(request) ==
    LET alone == Alone(request)
        prefix == buildR2Key(PairOf(request)[1], PairOf(request)[2], "")
    IN /\ {key \in DOMAIN store : StartsWith(key, prefix)} = DOMAIN alone
       /\ \A key \in DOMAIN alone : store[key] = alone[key]

\* C18: two uploads that name different (projectId, deploymentId) pairs put
\* disjoint sets of keys, and when both have returned the store holds for
\* each deployment exactly the objects the upload stores when run alone.
C18_DisjointUploads ==
    BothUploaded =>
        /\ PairOf(req) # PairOf(writer.request)
        /\ WriterKeys \cap PostKeys = {}
        /\ StoredAsAlone(req)
        /\ StoredAsAlone(writer.request)

----------------------------------------------------------------------------
(* C19: the shape of the worker's responses.                                *)

\* response is JSON with an error field.
IsJsonError(response) ==
    /\ response.headers.ContentType = "application/json"
    /\ JSONparses(response.body)
    /\ "error" \in DOMAIN JSONparse(response.body)

IsErrorStatus(response) == response.status >= 400

IsSuccessStatus(response) == response.status >= 200 /\ response.status <= 299

\* C19: every error response of the worker is JSON with an error field, and
\* every success response of upload, delete and cleanup carries a success
\* field.
C19_ResponseShape ==
    /\ IsErrorStatus(resp) => IsJsonError(resp)
    /\ IsErrorStatus(got.resp) => IsJsonError(got.resp)
    /\ (req.method = "POST" /\ req.pathname \in ProtectedPaths /\ IsSuccessStatus(resp))
       => "success" \in DOMAIN JSONparse(resp.body)

----------------------------------------------------------------------------
(* C20: the order of the list.                                              *)

\* The last GET asked for the list of a project.
IsList ==
    /\ get.method = "GET"
    /\ StartsWith(get.pathname, "/deployments/")
    /\ Len(get.pathname) > Len("/deployments/")

\* Whether deployments is ordered by createdAt, newest first.
NewestToOldest(deployments) ==
    \A i \in 1..(Len(deployments) - 1) :
        LET first == DateGetTime(CreatedAtOf(deployments[i]))
            second == DateGetTime(CreatedAtOf(deployments[i + 1]))
        IN ~first.nan /\ ~second.nan /\ first.v >= second.v

\* C20: the list of a project answers 200 with the manifests stored for the
\* project, each entry's createdAt not older than the next entry's.
C20_ListingOrder ==
    IsList =>
        /\ got.resp.status = 200
        /\ NewestToOldest(JSONparse(got.resp.body).deployments)

----------------------------------------------------------------------------
(* SpecAdminDelete: admin deletes whose projectId and deploymentId have     *)
(* every kind of shape, with and without the admin token.                   *)

\* "" stands for a field the body does not have.
AdminProjectIds == {"site", "Site_2-b", "", "my proj", "a/b", "site."}

AdminDeploymentIds ==
    {SeedDeployment, "deploy-12-ab3", "", "d1", "deploy-0-", "deploy--k3j9x2",
     "deploy-0-K3J9X2", "xdeploy-0-k3j9x2", "deploy-0-k3j9x2/x", "deploy-0x-k3j9x2"}

\* Configurations of the application: complete, or without the worker's
\* address.
AdminEnvs == {GoodEnv, [GoodEnv EXCEPT !.R2_SITES_WORKER_URL = ""]}

AdminDeleteIds ==
    /\ posts < MaxPosts
    /\ \E appEnv \in AdminEnvs, token \in ClientTokens(AdminToken),
          projectId \in AdminProjectIds, deploymentId \in AdminDeploymentIds,
          deleteThrows \in BOOLEAN :
        AppPost(AdminDeleteRequest(token, projectId, deploymentId), appEnv, Rnd,
                [NoIO EXCEPT !.deleteThrows = deleteThrows])
    /\ posts' = posts + 1

NextAdminDelete == AppSeed \/ AdminDeleteIds

SpecAdminDelete == Init /\ [][NextAdminDelete]_vars

\* The last request was an admin delete whose projectId or deploymentId is
\* present and does not match its pattern.
BadFormat ==
    /\ IsAdminDelete
    /\ JSONparses(app.req.body)
    /\ \/ AppBody.projectId # "" /\ ~PROJECT_ID_PATTERN(AppBody.projectId)
       \/ AppBody.deploymentId # "" /\ ~DEPLOYMENT_ID_PATTERN(AppBody.deploymentId)

\* The request passed the checks that come before the validation of the
\* body: the admin token and the application's configuration.
PassedAdminChecks ==
    /\ ~SecretUnset /\ ~ClientTokenMissing /\ ~ClientTokenWrong
    /\ app.env.R2_SITES_WORKER_URL # ""
    /\ app.env.R2_SITES_WORKER_TOKEN # ""

\* C21 as stated: an admin delete with a projectId or deploymentId that
\* does not match its pattern answers 400 and sends nothing to the worker.
C21_Original ==
    BadFormat => app.resp.status = 400 /\ app.calls = <<>>

\* C21: an admin delete with a projectId or deploymentId that does not
\* match its pattern sends nothing to the worker and changes nothing; it
\* answers 400 when it carries the admin token and the application is
\* configured, and the 401 or 500 of the earlier checks otherwise.
C21_FormatValidated ==
    BadFormat =>
        /\ app.calls = <<>>
        /\ store = app.pre
        /\ PassedAdminChecks => app.resp.status = 400
        /\ ~PassedAdminChecks => app.resp.status \in {401, 500}

\* An authenticated delete of a deployment id that names a path below the
\* stored deployment is refused.
C21_Witness ==
    /\ BadFormat
    /\ PassedAdminChecks
    /\ AppBody.projectId = "site"
    /\ AppBody.deploymentId = "deploy-0-k3j9x2/x"
    /\ app.resp.status = 400
    /\ app.calls = <<>>
    /\ store # EmptyStore

----------------------------------------------------------------------------
(* SpecOps: a deployment is uploaded, then one more authenticated upload,   *)
(* delete or cleanup runs on the same project.                              *)

OpsFileMaps ==
    {<<File("index.html", ContentA), File("a.txt", ContentB)>>,
     <<File("index.html", ContentB)>>,
     <<File("/index.html", ContentA), File("index.html", ContentB)>>,
     <<File("_manifest.json", ContentA), File("a.txt", ContentB)>>}

\* The random suffixes of the generated deployment ids.
OpsRnds == {Rnd, "zzzzzz"}

\* The first upload names its deployment or lets the worker mint the id.
OpsSeed ==
    /\ req = NoRequest
    /\ \E deploymentId \in {"d1", ""}, files \in OpsFileMaps :
        Post(UploadRequest(ValidAuth, "p", deploymentId, files), Rnd, NoFaults)
    /\ UNCHANGED posts

OpsUpload ==
    /\ posts < MaxPosts
    /\ \E deploymentId \in {"d1", "d2", ""}, files \in OpsFileMaps, rnd \in OpsRnds,
          putFail \in {{}, {1}} :
        Post(UploadRequest(ValidAuth, "p", deploymentId, files), rnd,
             [NoFaults EXCEPT !.putFail = putFail])
    /\ posts' = posts + 1

OpsDelete ==
    /\ posts < MaxPosts
    /\ \E deploymentId \in {"d1", generateDeploymentId(now, Rnd)},
          delFail \in {{}, {buildR2Key("p", "d1", "_manifest.json")},
                       {buildR2Key("p", "d1", "a.txt")}} :
        Post(DeleteRequest(ValidAuth, "p", deploymentId), Rnd,
             [NoFaults EXCEPT !.delFail = delFail])
    /\ posts' = posts + 1

OpsCleanup ==
    /\ posts < MaxPosts
    /\ \E retentionCount \in {Num(0), Num(1)},
          delFail \in {{}, {buildR2Key("p", "d1", "_manifest.json")}} :
        Post(CleanupRequest(ValidAuth, "p", retentionCount), Rnd,
             [NoFaults EXCEPT !.delFail = delFail])
    /\ posts' = posts + 1

NextOps == OpsSeed \/ OpsUpload \/ OpsDelete \/ OpsCleanup

SpecOps == Init /\ [][NextOps]_vars

\* The puts of the last POST that returned, as positions in log.
PutsDone == {i \in 1..Len(log) : log[i].op = "put" /\ log[i].ok}

\* C22: no upload puts a key that already holds an object, whether the
\* object was there before the upload or was put earlier by the same
\* upload; hence no POST changes the content of an object that it leaves in
\* the store.
C22_Immutable ==
    /\ \A i \in PutsDone :
          /\ ~Has(pre, log[i].key)
          /\ \A j \in PutsDone : j < i => log[j].key # log[i].key
    /\ \A key \in DOMAIN pre \cap DOMAIN store : store[key].body = pre[key].body

----------------------------------------------------------------------------
(* C23: the puts of an upload.                                              *)

UploadBody == JSONparse(req.body)

\* The deployment the last upload wrote to.
UploadDeployment ==
    IF UploadBody.deploymentId # "" THEN UploadBody.deploymentId
    ELSE generateDeploymentId(now, Rnd)

\* C23: an upload of N files makes exactly N + 1 store calls, all puts: the
\* i-th is the put of the i-th entry, made whether or not earlier puts
\* threw, and the last is the put of the manifest.
C23_WriteOrder ==
    UploadRan =>
        LET files == UploadBody.files
            N == Len(files)
        IN /\ Len(log) = N + 1
           /\ \A i \in 1..(N + 1) : log[i].op = "put"
           /\ \A i \in 1..N :
                 log[i].key = buildR2Key(UploadBody.projectId, UploadDeployment,
                                         Normalized(files[i].path))
           /\ log[N + 1].key = buildR2Key(UploadBody.projectId, UploadDeployment,
                                          "_manifest.json")

\* The first put of an upload of two files threw, the second and the
\* manifest's returned.
C23_Witness ==
    /\ UploadRan
    /\ Len(UploadBody.files) = 2
    /\ ~log[1].ok /\ log[2].ok /\ log[3].ok
    /\ resp.status = 207

----------------------------------------------------------------------------
(* C24: an upload whose manifest put throws.                                *)

ManifestPutThrew == UploadRan /\ ~ManifestWritten

\* C24: when the manifest put throws, the upload answers 500 with an error
\* field and neither success nor uploadedFiles; every object a file put of
\* this upload wrote is in the store with the content of an entry of that
\* key, and nothing else of the store changed.
C24_ManifestFailure ==
    ManifestPutThrew =>
        LET files == UploadBody.files
            written == {i \in 1..Len(files) : log[i].ok}
        IN /\ resp.status = 500
           /\ DOMAIN JSONparse(resp.body) = {"error"}
           /\ \A i \in written :
                 /\ Has(store, log[i].key)
                 /\ \E j \in written : /\ log[j].key = log[i].key
                                       /\ store[log[i].key].body = files[j].content
           /\ \A key \in DOMAIN store \cup DOMAIN pre :
                 key \notin {log[i].key : i \in written}
                     => Has(store, key) /\ Has(pre, key) /\ store[key] = pre[key]

\* The manifest put threw after a file put of the same upload had written
\* an object that was not in the store before.
C24_Witness ==
    /\ ManifestPutThrew
    /\ resp.status = 500
    /\ \E i \in 1..(Len(log) - 1) :
          log[i].ok /\ ~Has(pre, log[i].key) /\ Has(store, log[i].key)

----------------------------------------------------------------------------
(* C25: the order of the lookup of a served file.                           *)

\* index.html under the requested path.
IndexUnder(filePath) ==
    IF EndsWith(filePath, "/") THEN filePath \o "index.html"
    ELSE filePath \o "/index.html"

\* C25: a GET of a well-formed site path reads the exact key first; when an
\* object is stored there the answer is that object (200 with its body, or
\* 304 with its etag) and nothing else is read, whether or not index.html is
\* stored under the path; a second key is read only when the path has no '.',
\* and it is index.html under the path; when no key that was to be read is
\* stored the answer is 404.
C25_ResolutionOrder ==
    (IsServe /\ GetRoute.matched) =>
        LET filePath == GetRoute.filePath
            calls == got.log
            candidates == IF Includes(filePath, ".") THEN {filePath}
                          ELSE {filePath, IndexUnder(filePath)}
        IN /\ Len(calls) \in {1, 2}
           /\ calls[1] = Call("get", KeyOf(filePath), TRUE)
           /\ Has(store, KeyOf(filePath)) =>
                 /\ Len(calls) = 1
                 /\ got.resp.status \in {200, 304}
                 /\ got.resp.headers.ETag = store[KeyOf(filePath)].etag
                 /\ got.resp.status = 200 => got.resp.body = store[KeyOf(filePath)].body
           /\ Len(calls) = 2 =>
                 /\ ~Includes(filePath, ".")
                 /\ calls[2] = Call("get", KeyOf(IndexUnder(filePath)), TRUE)
           /\ (\A c \in candidates : ~Has(store, KeyOf(c))) => got.resp.status = 404

\* GET .../about is answered with the object stored at about while
\* about/index.html is stored too.
C25_Witness ==
    /\ PlainServe
    /\ get.pathname = SitePath("p", "d1", "about")
    /\ Has(store, "p/d1/about") /\ Has(store, "p/d1/about/index.html")
    /\ got.resp.status = 200
    /\ got.resp.body = ContentA
    /\ got.log = <<Call("get", "p/d1/about", TRUE)>>

----------------------------------------------------------------------------
(* SpecServe: GETs of every shape, with and without failing store calls,    *)
(* of a worker that holds one deployment.                                   *)

ServeFileMaps ==
    { <<File("index.html", ContentA), File("about/index.html", ContentB)>>,
      <<File("about", ContentA), File("about/index.html", ContentB)>>,
      <<File("index.html", ContentB)>> }

\* The pathnames of the GETs.
ServePathnames ==
    {"/health",
     "/sites/p/d1/index.html", "/sites/p/d1/about", "/sites/p/d1/missing.txt",
     "/sites/p/d1//", "/sites/p/d1/", "/sites/p/d1", "/sites/p/", "/sites/p",
     "/sites/", "/sites//d1/index.html", "/sites/p//index.html", "/sites///",
     "/deployments/p", "/deployments/"}

\* The store calls that throw during a GET.
ServeFaults ==
    { NoFaults,
      [NoFaults EXCEPT !.getFail = {"p/d1/index.html"}],
      [NoFaults EXCEPT !.getFail = {"p/d1/_manifest.json"}],
      [NoFaults EXCEPT !.listFail = {"p/"}] }

ServeSeed ==
    /\ req = NoRequest
    /\ \E files \in ServeFileMaps :
        Post(UploadRequest(ValidAuth, "p", "d1", files), Rnd, NoFaults)
    /\ UNCHANGED posts

ServeAny ==
    \E pathname \in ServePathnames, faults \in ServeFaults,
       ifNoneMatch \in {NoHeader, Header(Etag(ContentA))} :
        Get(Request("GET", pathname, NoHeader, ifNoneMatch, NoBody), faults)

NextServe == ServeSeed \/ ServeAny

SpecServe == Init /\ [][NextServe]_vars

----------------------------------------------------------------------------
(* C26: site paths that lack a part.                                        *)

\* pathname is /sites/{projectId}/{deploymentId}/{filePath} with a project
\* and a deployment that hold no '/', and none of the three empty.
HasSiteShape(pathname) ==
    /\ StartsWith(pathname, "/sites/")
    /\ LET rest == Slice(pathname, 7)
       IN \E i, j \in 1..Len(rest) :
            /\ 1 < i /\ i + 1 < j /\ j < Len(rest)
            /\ SubSeq(rest, i, i) = "/" /\ SubSeq(rest, j, j) = "/"
            /\ ~Includes(SubSeq(rest, 1, i - 1), "/")
            /\ ~Includes(SubSeq(rest, i + 1, j - 1), "/")

\* C26: a GET whose pathname starts with /sites/ and lacks the project, the
\* deployment or the file path is answered 400 and makes no store call.
C26_MalformedSitePath ==
    (IsServe /\ ~HasSiteShape(get.pathname)) =>
        /\ got.resp.status = 400
        /\ got.log = <<>>

\* GET /sites/p/d1/ of a worker that holds p/d1/index.html is answered 400.
C26_Witness ==
    /\ IsServe
    /\ get.pathname = "/sites/p/d1/"
    /\ Has(store, "p/d1/index.html")
    /\ got.resp.status = 400
    /\ got.log = <<>>

----------------------------------------------------------------------------
(* C27: the reads leave the store alone.                                    *)

\* C27: a GET of /health, /sites/... or /deployments/... makes no put and no
\* delete, and the store after it is the store before it, whatever the
\* answer.
C27_ReadsDoNotMutate ==
    [][get'.method = "GET" =>
        /\ store' = store
        /\ \A i \in 1..Len(got'.log) : got'.log[i].op \in {"get", "list"}]_vars

\* A read whose store call threw was answered 500 by a worker that holds
\* objects.
C27_Witness ==
    /\ get.method = "GET"
    /\ got.resp.status = 500
    /\ got.log # <<>>
    /\ store # EmptyStore

----------------------------------------------------------------------------
(* C28: a delete some of whose object deletes throw.                        *)

\* The positions in the log of the object deletes of the last delete.
ObjectDeletes == 2..Len(log)

\* C28: a delete whose list call returned answers 200 with success true and
\* deletedCount the number of object deletes that returned; it tried the
\* delete of every object listed under the prefix, in the order of the
\* listing, whatever the earlier deletes did; the objects whose delete threw
\* are in the store as they were, the others are not.
C28_DeleteSwallowsFailures ==
    DeleteRan =>
        LET listed == List(pre, DeletePrefix)
        IN /\ DeleteSuccess(resp, Cardinality({i \in ObjectDeletes : log[i].ok}))
           /\ Len(log) = Len(listed) + 1
           /\ \A i \in ObjectDeletes :
                 /\ log[i].op = "delete"
                 /\ log[i].key = listed[i - 1]
                 /\ ~log[i].ok => Has(store, log[i].key) /\ store[log[i].key] = pre[log[i].key]
                 /\ log[i].ok => ~Has(store, log[i].key)

\* The delete of p/d1/a.txt threw, the delete of p/d1/index.html after it
\* returned, and the answer is success with deletedCount 2.
C28_Witness ==
    /\ DeleteRan
    /\ \E i \in ObjectDeletes :
          /\ log[i].key = "p/d1/a.txt" /\ ~log[i].ok
          /\ \E j \in ObjectDeletes : j > i /\ log[j].key = "p/d1/index.html" /\ log[j].ok
    /\ Has(store, "p/d1/a.txt") /\ ~Has(store, "p/d1/index.html")
    /\ DeleteSuccess(resp, 2)

----------------------------------------------------------------------------
(* SpecRace: a cleanup of project p arrives between two steps of an upload  *)
(* to p.  The upload's steps are its puts, the put of its manifest and its  *)
(* return; the cleanup runs as one step.                                    *)

RaceSeedFileMaps ==
    { <<File("index.html", ContentA)>>,
      <<File("index.html", ContentA), File("a.txt", ContentA)>> }

\* The upload in flight writes ContentB, which no earlier upload wrote.
RaceFiles == <<File("index.html", ContentB), File("b.txt", ContentB)>>

RaceDeploymentIds == {"d1", "d2"}

RaceRetentionCounts == {Num(0), Num(1)}

\* An earlier upload of deployment d1 that has returned.
RaceSeed ==
    /\ req = NoRequest
    /\ writer.pc = "none"
    /\ \E files \in RaceSeedFileMaps :
        Post(UploadRequest(ValidAuth, "p", "d1", files), Rnd, NoFaults)
    /\ UNCHANGED posts

\* An upload arrives and passes the token check and the validation.
RaceStart ==
    /\ writer.pc = "none"
    /\ \E deploymentId \in RaceDeploymentIds :
        LET request == UploadRequest(ValidAuth, "p", deploymentId, RaceFiles)
        IN /\ ~validateInternalToken(request, env).rejected
           /\ writer' = [NoWriter EXCEPT !.pc = "put", !.request = request]
    /\ UNCHANGED <<store, now, env, req, resp, pre, log, get, got, posts, readers, app>>

\* await env.SITES_BUCKET.put(manifestKey, ...): the bucket stores the
\* manifest; the handler has yet to resume.
RaceManifestPut ==
    /\ writer.pc = "manifest"
    /\ LET body == JSONparse(writer.request.body)
           manifest == Manifest(body.projectId, body.deploymentId, writer.uploadedFiles, now)
           manifestKey == buildR2Key(body.projectId, body.deploymentId, "_manifest.json")
       IN store' = Put(store, manifestKey, JSONstringify(manifest), "application/json")
    /\ writer' = [writer EXCEPT !.pc = "respond"]
    /\ UNCHANGED <<now, env, req, resp, pre, log, get, got, posts, readers, app>>

\* The handler resumes and returns its response.
RaceRespond ==
    /\ writer.pc = "respond"
    /\ LET body == JSONparse(writer.request.body)
       IN writer' = [writer EXCEPT
                        !.pc = "done",
                        !.resp = jsonResponse(
                            [success |-> TRUE,
                             projectId |-> body.projectId,
                             deploymentId |-> body.deploymentId,
                             url |-> writer.request.origin \o "/sites/"
                                        \o body.projectId \o "/" \o body.deploymentId
                                        \o "/index.html",
                             uploadedFiles |-> writer.uploadedFiles], 200)]
    /\ UNCHANGED <<store, now, env, req, resp, pre, log, get, got, posts, readers, app>>

\* A cleanup of p runs while the upload is in flight.
RaceCleanup ==
    /\ posts < MaxPosts
    /\ writer.pc \in {"put", "manifest", "respond"}
    /\ \E retentionCount \in RaceRetentionCounts :
        Post(CleanupRequest(ValidAuth, "p", retentionCount), Rnd, NoFaults)
    /\ posts' = posts + 1

NextRace ==
    \/ RaceSeed
    \/ RaceStart
    \/ WriterPut
    \/ RaceManifestPut
    \/ RaceRespond
    \/ RaceCleanup

SpecRace == Init /\ [][NextRace]_vars

----------------------------------------------------------------------------
(* C29: cleanup during an upload.                                           *)

\* The prefix of the deployment the upload in flight writes.
WriterPrefix ==
    buildR2Key(JSONparse(writer.request.body).projectId,
               JSONparse(writer.request.body).deploymentId, "")

\* The last POST was a cleanup that ran during the upload and deleted
\* the upload's deployment.
CleanupTookWriterDeployment ==
    /\ IsCleanup
    /\ writer.pc # "none"
    /\ resp.status = 200
    /\ "deletedDeployments" \in DOMAIN JSONparse(resp.body)
    /\ JSONparse(writer.request.body).deploymentId
           \in SeqToSet(JSONparse(resp.body).deletedDeployments)

\* C29: a cleanup that runs while an upload to the same project is in flight
\* spares nothing of the upload: when it deletes the deployment the upload
\* writes, it deletes every object stored under the deployment's prefix at
\* that time, those the upload has put included.  (That such a cleanup
\* exists is what C29_Witness shows.)
C29_CleanupSparesNoUpload ==
    CleanupTookWriterDeployment =>
        \A key \in DOMAIN pre :
            StartsWith(key, WriterPrefix)
                => \E i \in 1..Len(log) : log[i] = Call("delete", key, TRUE)

\* The upload of the new deployment d2 has put an object and has not
\* returned, and the cleanup has deleted that object.
C29_Witness ==
    /\ CleanupTookWriterDeployment
    /\ writer.pc \in {"put", "manifest", "respond"}
    /\ WriterPrefix = "p/d2/"
    /\ \E i \in 1..Len(log) :
          /\ log[i].op = "delete" /\ log[i].ok
          /\ StartsWith(log[i].key, WriterPrefix)
          /\ Has(pre, log[i].key)
          /\ pre[log[i].key].body = ContentB
          /\ ~Has(store, log[i].key)

----------------------------------------------------------------------------
(* C30: a manifest and the objects under its prefix.                        *)

\* The keys {projectId}/{deploymentId}/_manifest.json that hold a manifest.
StoredManifestKeys ==
    {k \in DOMAIN store :
        /\ parseRoute("/sites/" \o k).matched
        /\ parseRoute("/sites/" \o k).filePath = "_manifest.json"
        /\ JSONparses(store[k].body)}

\* C30: after any sequence of uploads, deletes and cleanups, for every
\* manifest stored at {projectId}/{deploymentId}/_manifest.json the paths of
\* its files are the objects stored under {projectId}/{deploymentId}/ other
\* than the manifest, no path occurs twice in files, and _manifest.json is
\* not among them.
C30_ManifestAgreement ==
    \A k \in StoredManifestKeys :
        LET prefix == SubSeq(k, 1, Len(k) - Len("_manifest.json"))
            files == JSONparse(store[k].body).files
        IN /\ {prefix \o files[i] : i \in 1..Len(files)}
                 = {key \in DOMAIN store : StartsWith(key, prefix)} \ {k}
           /\ \A i, j \in 1..Len(files) : files[i] = files[j] => i = j
           /\ \A i \in 1..Len(files) : files[i] # "_manifest.json"

----------------------------------------------------------------------------
(* C33: deleting what a publish made.                                       *)

\* The project the last publish named (the default when it named none).
PublishedProject ==
    IF AppBody.projectName = "" THEN "x-builder-preview" ELSE AppBody.projectName

\* The admin delete of the deployment the last publish made, by a caller
\* with the valid admin token, sent now.
DeletePublished ==
    deleteAction(AdminDeleteRequest(Header(AdminToken), PublishedProject,
                                    JSONparse(app.resp.body).deploymentId),
                 GoodEnv, store, [env |-> env, now |-> now, rnd |-> Rnd], NoIO)

\* C33: after a publish with provider r2_worker that succeeded, the project
\* it named and the deploymentId it returned match the patterns of the
\* delete endpoint, and the admin delete of that deployment is not refused
\* with 400.
C33_PublishedDeletable ==
    PublishSucceeded(app.req, app.resp) =>
        /\ PROJECT_ID_PATTERN(PublishedProject)
        /\ DEPLOYMENT_ID_PATTERN(JSONparse(app.resp.body).deploymentId)
        /\ DeletePublished.resp.status # 400

----------------------------------------------------------------------------
(* C34: what a 401 of a publish tells.                                      *)

\* C34: a publish with provider r2_worker is answered 401 only when the
\* client's X-Publish-Token is missing or is not PUBLISH_TOKEN.
C34_Only401ForClientToken ==
    (IsR2Publish /\ app.resp.status = 401) => (ClientTokenMissing \/ ClientTokenWrong)

----------------------------------------------------------------------------
(* C35: what a delete leaves alone.                                         *)

\* The answer to a GET of index.html of a seeded deployment, from bucket s.
ServedFrom(s, seed) ==
    fetch(GetRequest(SitePath(seed.projectId, seed.deploymentId, "index.html"), NoHeader),
          env, s, now, "", NoFaults).resp

\* C35: a delete of (projectId, deploymentId) leaves every object whose key
\* does not start with projectId/deploymentId/ as it was, none added and
\* none removed, and index.html of every other deployment is served after
\* it as before it; a delete that is refused changes nothing.
C35_DeleteFrame ==
    (req.method = "POST" /\ req.pathname = "/delete") =>
        IF DeleteRan
        THEN /\ \A key \in DOMAIN pre \cup DOMAIN store :
                   ~StartsWith(key, DeletePrefix)
                       => Has(pre, key) /\ Has(store, key) /\ store[key] = pre[key]
             /\ \A seed \in DeleteSeeds :
                   buildR2Key(seed.projectId, seed.deploymentId, "") # DeletePrefix
                       => ServedFrom(store, seed) = ServedFrom(pre, seed)
        ELSE store = pre

\* The delete of p/d1 removed its index.html while p/d2 and my proj/d1 hold
\* theirs.
C35_Witness ==
    /\ DeleteRan
    /\ DeletePrefix = "p/d1/"
    /\ Has(pre, "p/d1/index.html") /\ ~Has(store, "p/d1/index.html")
    /\ Has(store, "p/d2/index.html")
    /\ Has(store, "my proj/d1/index.html")

----------------------------------------------------------------------------
(* SpecManifests: deployments of projects p and q are uploaded, some with a *)
(* file named sub/_manifest.json that holds a manifest, some with a failing *)
(* manifest put; then project p is cleaned up and listed.                   *)

\* A manifest of (projectId, deploymentId), uploaded as a file.
ForgedManifest(projectId, deploymentId) ==
    File("sub/_manifest.json",
         JSONstringify(Manifest(projectId, deploymentId, <<"index.html">>, 0)))

ManifestFileMaps ==
    { <<File("index.html", ContentA)>>,
      <<File("index.html", ContentB), ForgedManifest("p", "d1")>>,
      <<File("index.html", ContentB), ForgedManifest("q", "d1")>> }

ManifestDeploymentIds == {"d1", "d2"}

ManifestRetentionCounts == {Num(0), Num(1), Num(2)}

\* An upload of a new deployment of p, whose manifest put may throw.
ManifestSeed ==
    /\ posts = 0
    /\ \E deploymentId \in ManifestDeploymentIds, files \in ManifestFileMaps,
          manifestFail \in BOOLEAN :
        /\ List(store, buildR2Key("p", deploymentId, "")) = <<>>
        /\ Post(UploadRequest(ValidAuth, "p", deploymentId, files), Rnd,
                [NoFaults EXCEPT !.manifestFail = manifestFail])
    /\ UNCHANGED posts

\* An upload of deployment d1 of project q.
ManifestSeedOther ==
    /\ posts = 0
    /\ List(store, buildR2Key("q", "d1", "")) = <<>>
    /\ Post(UploadRequest(ValidAuth, "q", "d1", <<File("index.html", ContentA)>>), Rnd,
            NoFaults)
    /\ UNCHANGED posts

\* A cleanup of p none of whose store calls throws.
ManifestCleanup ==
    /\ posts < MaxPosts
    /\ \E retentionCount \in ManifestRetentionCounts :
        Post(CleanupRequest(ValidAuth, "p", retentionCount), Rnd, NoFaults)
    /\ posts' = posts + 1

ManifestList ==
    /\ get = NoRequest
    /\ Get(GetRequest("/deployments/p", NoHeader), NoFaults)

NextManifests == ManifestSeed \/ ManifestSeedOther \/ ManifestCleanup \/ ManifestList

SpecManifests == Init /\ [][NextManifests]_vars

----------------------------------------------------------------------------
(* C31: where the manifests of list and cleanup come from.                  *)

\* m is the manifest stored in bucket s at p/{deploymentId}/_manifest.json
\* for the deploymentId m reports.
StoredAtOwnKey(s, m) ==
    LET key == buildR2Key("p", DeploymentIdOf(m), "_manifest.json")
    IN Has(s, key) /\ JSONparses(s[key].body) /\ JSONparse(s[key].body) = m

\* The deployments the last cleanup reports as deleted.
DeletedDeployments == JSONparse(resp.body).deletedDeployments

CleanupDeleted ==
    /\ IsCleanup
    /\ resp.status = 200
    /\ "deletedDeployments" \in DOMAIN JSONparse(resp.body)

\* C31: every manifest in the list of p is stored at the key of the
\* deployment it reports and no deployment is listed twice; every deployment
\* a cleanup of p deletes had, before the cleanup, a manifest that reports it
\* stored at its own key, and the cleanup deletes it once.
C31_ManifestIdentity ==
    /\ (IsList /\ got.resp.status = 200) =>
          LET deployments == JSONparse(got.resp.body).deployments
          IN /\ \A i \in 1..Len(deployments) : StoredAtOwnKey(store, deployments[i])
             /\ \A i, j \in 1..Len(deployments) :
                   DeploymentIdOf(deployments[i]) = DeploymentIdOf(deployments[j]) => i = j
    /\ CleanupDeleted =>
          /\ \A i \in 1..Len(DeletedDeployments) :
                \E m \in ManifestsIn(pre) :
                    DeploymentIdOf(m) = DeletedDeployments[i] /\ StoredAtOwnKey(pre, m)
          /\ \A i, j \in 1..Len(DeletedDeployments) :
                DeletedDeployments[i] = DeletedDeployments[j] => i = j

----------------------------------------------------------------------------
(* C32: what a cleanup leaves.                                              *)

\* The deployments of p that hold an object in bucket s.
PrefixesHoldingObjects(s) ==
    {parseRoute("/sites/" \o k).deploymentId :
        k \in {k \in DOMAIN s : StartsWith(k, "p/") /\ parseRoute("/sites/" \o k).matched}}

\* C32: after a cleanup of p with retentionCount N >= 1 that returned 200
\* and none of whose store calls threw, at most N deployments of p hold an
\* object.
C32_RetentionBoundsStorage ==
    (IsCleanup /\ resp.status = 200 /\ RetentionCountOf(req).v >= 1) =>
        Cardinality(PrefixesHoldingObjects(store)) <= RetentionCountOf(req).v

----------------------------------------------------------------------------
(* C36: what a cleanup leaves alone.                                        *)

CleanupPrefix == JSONparse(req.body).projectId \o "/"

\* C36: a cleanup of project p deletes only objects whose key starts with
\* p/, and leaves every other object as it was, none added and none removed.
C36_CleanupFrame ==
    IsCleanup =>
        /\ \A i \in 1..Len(log) :
              log[i].op = "delete" => StartsWith(log[i].key, CleanupPrefix)
        /\ \A key \in DOMAIN pre \cup DOMAIN store :
              ~StartsWith(key, CleanupPrefix)
                  => Has(pre, key) /\ Has(store, key) /\ store[key] = pre[key]

\* A cleanup of p took a manifest that names deployment d1 of project q,
\* deleted an object of p, and q/d1 holds its objects.
C36_Witness ==
    /\ CleanupDeleted
    /\ \E m \in ManifestsIn(pre) : m.projectId = "q" /\ m.deploymentId = "d1"
    /\ "d1" \in SeqToSet(DeletedDeployments)
    /\ \E i \in 1..Len(log) : log[i] = Call("delete", "p/d1/index.html", TRUE)
    /\ Has(store, "q/d1/index.html") /\ Has(store, "q/d1/_manifest.json")

============================================================================
